---- MODULE Spec2Model ----
(***************************************************************************)
(* Admin guards (src/lib/auth-guards.ts) and the mutating route handlers   *)
(* of the site (projects, tags, site settings), modelled over the Prisma   *)
(* tables and the Cloudinary asset store they act on.                      *)
(***************************************************************************)
EXTENDS Integers, Sequences, FiniteSets, TLC

(***************************************************************************)
(* Bounds of the model.                                                    *)
(***************************************************************************)
MaxTime == 2
SessionTTL == 1
MaxProjects == 2
MaxAssets == 3
MaxTags == 2
MaxFiles == 2

(***************************************************************************)
(* Users, e-mail addresses and session tokens.  User.email and             *)
(* Session.sessionToken are unique columns, so each user has one e-mail    *)
(* and (at most) one persisted session row in the model.                   *)
(***************************************************************************)
UserIds == {"u1", "u2"}
None == "none"

EmailOf(u) == IF u = "u1" THEN "u1@mail" ELSE "u2@mail"
TokenOf(u) == IF u = "u1" THEN "t1" ELSE "t2"
Emails == {EmailOf(u) : u \in UserIds}
Tokens == {TokenOf(u) : u \in UserIds}
OwnerOf(t) == CHOOSE u \in UserIds : TokenOf(u) = t

VARIABLES
    users,        \* User table: id -> [exists, isAdmin]
    sessionRows,  \* Session table: sessionToken -> [exists, expires]
    now,          \* current time (new Date())
    minted,       \* per user, the isAdmin values embedded in session payloads still held by clients
    guard,        \* the guard call being answered: inputs, result, lookups made
    projects,     \* Project table: id -> row
    images,       \* ProjectImage table: set of [projectId, imagePublicId, sortOrder]
    tags,         \* Tag table: set of [id, name]
    projectTags,  \* ProjectTag table: set of [projectId, tagId]
    settings,     \* SiteSetting table: set of [key, value]
    assets,       \* Cloudinary: public IDs of the images currently stored
    counters,     \* next fresh ids: [project, asset, tag]
    resp,         \* the request being answered: handler, response, calls made
    running       \* resolveTagNamesToIds calls in progress: caller -> position and locals

authVars == <<users, sessionRows, now, minted>>
apiVars == <<projects, images, tags, projectTags, settings, assets, counters, resp, running>>

(***************************************************************************)
(* The session object auth() hands to a guard.                             *)
(* isAdmin = FALSE stands for every value that is not `=== true`.          *)
(***************************************************************************)
NoSession == [present |-> FALSE, id |-> None, email |-> None, isAdmin |-> FALSE]

SessionShapes == {"full", "noId", "noEmail", "bare"}

SessionOf(u, shape, adm) ==
    [present |-> TRUE,
     id      |-> IF shape \in {"full", "noEmail"} THEN u ELSE None,
     email   |-> IF shape \in {"full", "noId"} THEN EmailOf(u) ELSE None,
     isAdmin |-> adm]

\* The sessions auth() can resolve in the current state: none, or the payload
\* of a cookie minted at an earlier sign-in.
ResolvableSessions ==
    {NoSession} \cup
    {SessionOf(u, shape, adm) : u \in UserIds, shape \in SessionShapes, adm \in BOOLEAN}

HeldSessions ==
    {NoSession} \cup
    {s \in ResolvableSessions \ {NoSession} :
        \E u \in UserIds : \E shape \in SessionShapes :
            \E adm \in minted[u] : s = SessionOf(u, shape, adm)}

(***************************************************************************)
(* Prisma lookups used by the guards.                                      *)
(***************************************************************************)
NoRow == [found |-> FALSE, isAdmin |-> FALSE]

\* prisma.user.findUnique({ where: { id }, select: { isAdmin } })
UserById(id) ==
    IF id \in UserIds /\ users[id].exists
    THEN [found |-> TRUE, isAdmin |-> users[id].isAdmin]
    ELSE NoRow

\* prisma.user.findUnique({ where: { email }, select: { isAdmin } })
UserByEmail(email) ==
    IF \E u \in UserIds : EmailOf(u) = email /\ users[u].exists
    THEN LET u == CHOOSE v \in UserIds : EmailOf(v) = email /\ users[v].exists
         IN [found |-> TRUE, isAdmin |-> users[u].isAdmin]
    ELSE NoRow

\* prisma.session.findUnique({ where: { sessionToken }, select: { expires, user: { isAdmin } } })
SessionByToken(t) ==
    IF t \in Tokens /\ sessionRows[t].exists
    THEN [found |-> TRUE, expires |-> sessionRows[t].expires,
          isAdmin |-> users[OwnerOf(t)].exists /\ users[OwnerOf(t)].isAdmin]
    ELSE [found |-> FALSE, expires |-> 0, isAdmin |-> FALSE]

Lookup(table, key, row) ==
    [table |-> table, key |-> key, found |-> row.found, isAdmin |-> row.isAdmin]

(***************************************************************************)
(* Cookie header of a request: a sequence of name=value pairs.             *)
(***************************************************************************)
StdCookie == "next-auth.session-token"
SecureCookie == "__Secure-next-auth.session-token"
OtherCookie == "theme"

Cookie(n, v) == [name |-> n, value |-> v]

CookieHeaders ==
    { <<>>,
      <<Cookie(OtherCookie, "dark")>>,
      <<Cookie(StdCookie, "t1")>>,
      <<Cookie(SecureCookie, "t2")>>,
      <<Cookie(OtherCookie, "dark"), Cookie(StdCookie, "t2")>>,
      <<Cookie(StdCookie, ""), Cookie(SecureCookie, "t1")>>,
      <<Cookie(SecureCookie, "t1"), Cookie(StdCookie, "t2")>> }

RECURSIVE FirstSessionCookie(_)
FirstSessionCookie(h) ==
    IF h = <<>> THEN None
    ELSE IF Head(h).name \in {StdCookie, SecureCookie} /\ Head(h).value # ""
         THEN Head(h).value
         ELSE FirstSessionCookie(Tail(h))

\* getSessionTokenFromRequest: the value of the first cookie named
\* next-auth.session-token or __Secure-next-auth.session-token with a
\* non-empty value; null when the header is missing or holds none.
getSessionTokenFromRequest(header) == FirstSessionCookie(header)

(***************************************************************************)
(* Guard results.  status = 0 stands for `response: null` (ok).            *)
(***************************************************************************)
Granted(reads) == [ok |-> TRUE, status |-> 0, error |-> None, reads |-> reads]
Unauthorized(reads) == [ok |-> FALSE, status |-> 401, error |-> "Unauthorized", reads |-> reads]
Forbidden(reads) == [ok |-> FALSE, status |-> 403, error |-> "Forbidden", reads |-> reads]

\* Mutant: the embedded flag is ignored only when no user id is present, and a
\* session without a user id is answered 401.
requireAdmin_NoId401(session) ==
    IF ~session.present THEN Unauthorized(<<>>)
    ELSE IF session.isAdmin = TRUE THEN Granted(<<>>)
    ELSE IF session.id # None
         THEN LET dbUser == UserById(session.id)
                  reads == <<Lookup("user", session.id, dbUser)>>
              IN IF dbUser.found /\ dbUser.isAdmin THEN Granted(reads) ELSE Forbidden(reads)
         ELSE Unauthorized(<<>>)

\* Mutant: the database is consulted before the session is tested for null.
requireAdmin_LookupFirst(session) ==
    LET dbUser == UserById(session.id)
        reads == <<Lookup("user", session.id, dbUser)>>
    IN IF ~session.present THEN Unauthorized(reads)
       ELSE IF session.isAdmin = TRUE \/ (dbUser.found /\ dbUser.isAdmin) THEN Granted(reads)
       ELSE Forbidden(reads)

\* requireAdmin(): guard of the collection endpoints.
requireAdmin(session) ==
    IF ~session.present THEN Unauthorized(<<>>)
    ELSE IF session.isAdmin = TRUE THEN Granted(<<>>)
    ELSE IF session.id # None
         THEN LET dbUser == UserById(session.id)
                  reads == <<Lookup("user", session.id, dbUser)>>
              IN IF dbUser.found /\ dbUser.isAdmin THEN Granted(reads) ELSE Forbidden(reads)
         ELSE Forbidden(<<>>)

\* verifyAdmin(request?, ctx?): guard of the item endpoints.
\* Mutant: the session-token lookup is never made.
verifyAdmin_EmailOnly(session, hasRequest, header) ==
    IF ~session.present THEN Unauthorized(<<>>)
    ELSE IF session.email = None THEN Unauthorized(<<>>)
    ELSE LET user == UserByEmail(session.email)
             r1 == <<Lookup("user", session.email, user)>>
         IN IF user.found /\ user.isAdmin THEN Granted(r1) ELSE Unauthorized(r1)

\* Mutant: the expiry of the persisted session is not compared with the clock.
verifyAdmin_NoExpiry(session, hasRequest, header) ==
    IF ~session.present THEN Unauthorized(<<>>)
    ELSE
      LET user == IF session.email # None THEN UserByEmail(session.email) ELSE NoRow
          r1 == IF session.email # None
                THEN <<Lookup("user", session.email, user)>> ELSE <<>>
      IN IF session.email # None /\ user.found /\ user.isAdmin THEN Granted(r1)
         ELSE
           LET sessionToken == IF hasRequest THEN getSessionTokenFromRequest(header) ELSE None
           IN IF sessionToken = None THEN Unauthorized(r1)
              ELSE
                LET dbSession == SessionByToken(sessionToken)
                    r2 == Append(r1, Lookup("session", sessionToken, dbSession))
                IN IF dbSession.found
                   THEN IF dbSession.isAdmin THEN Granted(r2) ELSE Forbidden(r2)
                   ELSE Unauthorized(r2)

verifyAdmin(session, hasRequest, header) ==
    IF ~session.present THEN Unauthorized(<<>>)
    ELSE
      LET user == IF session.email # None THEN UserByEmail(session.email) ELSE NoRow
          r1 == IF session.email # None
                THEN <<Lookup("user", session.email, user)>> ELSE <<>>
      IN IF session.email # None /\ user.found /\ user.isAdmin THEN Granted(r1)
         ELSE
           LET sessionToken == IF hasRequest THEN getSessionTokenFromRequest(header) ELSE None
           IN IF sessionToken = None THEN Unauthorized(r1)
              ELSE
                LET dbSession == SessionByToken(sessionToken)
                    r2 == Append(r1, Lookup("session", sessionToken, dbSession))
                IN IF dbSession.found /\ dbSession.expires > now
                   THEN IF dbSession.isAdmin THEN Granted(r2) ELSE Forbidden(r2)
                   ELSE Unauthorized(r2)

(***************************************************************************)
(* State of the guard call being answered.                                 *)
(***************************************************************************)
GuardIdle ==
    [op |-> "none", session |-> NoSession, hasRequest |-> FALSE, token |-> None,
     ok |-> FALSE, status |-> 0, error |-> None, reads |-> <<>>,
     byId |-> NoRow, byEmail |-> NoRow]

\* The record of a guard call: its inputs, its result, and the rows the
\* user table held for the session's id and e-mail when the call ran.
GuardCall(op, session, hasRequest, header, res) ==
    [op |-> op, session |-> session, hasRequest |-> hasRequest,
     token |-> IF hasRequest THEN getSessionTokenFromRequest(header) ELSE None,
     ok |-> res.ok, status |-> res.status, error |-> res.error, reads |-> res.reads,
     byId |-> UserById(session.id), byEmail |-> UserByEmail(session.email)]

(***************************************************************************)
(* Strings are sequences of characters; form fields keep their kind.       *)
(***************************************************************************)
IsSpace(c) == c = " "

RECURSIVE TrimStart(_)
TrimStart(s) == IF s # <<>> /\ IsSpace(Head(s)) THEN TrimStart(Tail(s)) ELSE s

RECURSIVE TrimEnd(_)
TrimEnd(s) ==
    IF s # <<>> /\ IsSpace(s[Len(s)]) THEN TrimEnd(SubSeq(s, 1, Len(s) - 1)) ELSE s

\* String.prototype.trim
Trim(s) == TrimEnd(TrimStart(s))

LowerChar(c) == IF c = "A" THEN "a" ELSE IF c = "B" THEN "b" ELSE c

\* String.prototype.toLowerCase
Lower(s) == [i \in 1..Len(s) |-> LowerChar(s[i])]

\* null in a nullable string column
NullStr == <<"<null>">>

\* formData.get(name): null, a File, or a string
Missing == [kind |-> "missing", s |-> <<>>]
FileField == [kind |-> "file", s |-> <<>>]
Str(s) == [kind |-> "string", s |-> s]

\* typeof v === "string"
IsString(v) == v.kind = "string"

\* !v for a form field: null and the empty string are falsy
Falsy(v) == v.kind = "missing" \/ (v.kind = "string" /\ v.s = <<>>)

(***************************************************************************)
(* Image files of a request.                                               *)
(***************************************************************************)
ALLOWED_IMAGE_TYPES == {"image/jpeg", "image/jpg", "image/png", "image/webp", "image/gif"}
MAX_IMAGE_SIZE_BYTES == 10485760

\* An entry of formData.getAll("image"): a File, or a plain string value.
ImageFile(type, size) == [file |-> TRUE, type |-> type, size |-> size]
TextEntry == [file |-> FALSE, type |-> "", size |-> 0]

\* imageEntries.filter(entry instanceof File && entry.size > 0)
ImageFilesOf(entries) == SelectSeq(entries, LAMBDA e : e.file /\ e.size > 0)

\* Requests that fail downstream: the k-th project write of the request
\* throws (db = k), the k-th uploadImage call throws (upload = k), deleteImage
\* throws for one public ID (destroy), deleteFolder throws (folder).  0 and
\* FALSE mean no failure.
Fault(db, upload, destroy, folder) ==
    [db |-> db, upload |-> upload, destroy |-> destroy, folder |-> folder]
NoFault == Fault(0, 0, 0, FALSE)

(***************************************************************************)
(* Tables and the response record.                                         *)
(***************************************************************************)
ProjectIds == 1..MaxProjects
AssetIds == 1..MaxAssets

NoProject ==
    [exists |-> FALSE, title |-> <<>>, description |-> NullStr, category |-> NullStr,
     featured |-> FALSE, imagePublicId |-> 0, cloudinaryFolder |-> FALSE, createdAt |-> 0]

\* The public IDs ProjectImage rows hold for project id, by ascending sortOrder.
ImagesOf(id) == {r \in images : r.projectId = id}

Call(fn, arg) == [fn |-> fn, arg |-> arg]

\* The tags form field: missing, or a string that is invalid JSON, JSON that
\* is not an array, or a JSON array (items: strings and non-strings).
TagsField(kind, items) == [kind |-> kind, items |-> items]
NoTagsField == TagsField("missing", <<>>)

\* The multipart form of a project request (POST reads title, description,
\* category, featured, thumbnailIndex and image; PATCH reads no category).
Form(title, description, category, tagsRaw, featured, image, removeImage, keepPublicIds, thumbnailIndex) ==
    [title |-> title, description |-> description, category |-> category, tags |-> tagsRaw,
     featured |-> featured, image |-> image, removeImage |-> removeImage,
     keepPublicIds |-> keepPublicIds, thumbnailIndex |-> thumbnailIndex]
NoForm == Form(Missing, Missing, Missing, NoTagsField, Missing, <<>>, Missing, {}, Missing)

PostForm(title, description, category, featured, thumbnailIndex, image) ==
    Form(title, description, category, NoTagsField, featured, image, Missing, {}, thumbnailIndex)

PatchForm(title, description, tagsRaw, featured, image, removeImage, keepPublicIds, thumbnailIndex) ==
    Form(title, description, Missing, tagsRaw, featured, image, removeImage, keepPublicIds,
         thumbnailIndex)

\* The JSON body of a tag, site-settings or order request.
Body(valid, key, value, name, isArray, ids) ==
    [valid |-> valid, key |-> key, value |-> value, name |-> name,
     isArray |-> isArray, ids |-> ids]
NoBody == Body(FALSE, Missing, Missing, Missing, FALSE, <<>>)
TagBody(name) == Body(TRUE, Missing, Missing, name, FALSE, <<>>)
\* site settings: invalid JSON, or an object with key and value
SettingsBody(valid, key, value) == Body(valid, key, value, Missing, FALSE, <<>>)
\* orderedIds: missing or not an array (isArray FALSE), or an array whose
\* items are project ids; 0 stands for an item that is not a non-blank string.
OrderBody(isArray, ids) == Body(TRUE, Missing, Missing, Missing, isArray, ids)

\* The request a handler is answering.
Request(id, form, fault, body) == [id |-> id, form |-> form, fault |-> fault, body |-> body]
NoRequest == Request(0, NoForm, NoFault, NoBody)

RespIdle ==
    [op |-> "none", req |-> NoRequest, status |-> 0, error |-> None, calls |-> <<>>,
     body |-> NoProject, ret |-> <<>>]

Response(op, req, status, error, calls, body) ==
    [op |-> op, req |-> req, status |-> status, error |-> error, calls |-> calls, body |-> body,
     ret |-> <<>>]

\* The callers that can run resolveTagNamesToIds at the same time, and the
\* locals of one call: pc is the await the call is at, toCreate the kept
\* names, known the rows of existingLower, todo the names still to insert.
Callers == 1..2
NoCall ==
    [pc |-> "idle", toCreate |-> <<>>, known |-> {}, todo |-> <<>>, ret |-> <<>>]

ApiEmpty ==
    /\ running = [c \in Callers |-> NoCall]
    /\ projects = [p \in ProjectIds |-> NoProject]
    /\ images = {}
    /\ tags = {}
    /\ projectTags = {}
    /\ settings = {}
    /\ assets = {}
    /\ counters = [project |-> 1, asset |-> 1, tag |-> 1]
    /\ resp = RespIdle

(***************************************************************************)
(* Cloudinary (src/lib/cloudinary.ts).                                     *)
(***************************************************************************)
\* The validate-and-upload loop shared by POST and PATCH: each file is
\* checked for type and size and then uploaded, in order; the loop stops at
\* the first invalid file or at the first upload that throws.
RECURSIVE UploadLoop(_, _, _, _)
UploadLoop(files, uploaded, next, failAt) ==
    IF files = <<>> THEN [outcome |-> "done", uploaded |-> uploaded]
    ELSE IF Head(files).type \notin ALLOWED_IMAGE_TYPES
         THEN [outcome |-> "badType", uploaded |-> uploaded]
    ELSE IF Head(files).size > MAX_IMAGE_SIZE_BYTES
         THEN [outcome |-> "tooLarge", uploaded |-> uploaded]
    ELSE IF Len(uploaded) + 1 = failAt
         THEN [outcome |-> "throw", uploaded |-> uploaded]
    ELSE UploadLoop(Tail(files), Append(uploaded, next), next + 1, failAt)

UploadCalls(loop) ==
    [i \in 1..(Len(loop.uploaded) + (IF loop.outcome = "throw" THEN 1 ELSE 0)) |->
        Call("uploadImage", IF i <= Len(loop.uploaded) THEN loop.uploaded[i] ELSE 0)]

SeqToSet(q) == {q[i] : i \in DOMAIN q}

\* deleteImage(publicId) for each public ID of ids, in order, every failure
\* swallowed (the catch blocks of POST and PATCH): the assets left.
CleanupAssets(live, ids, fault) == live \ (SeqToSet(ids) \ {fault.destroy})

\* Mutant: the cleanup stops after its first deleteImage call.
CleanupCalls_FirstOnly(ids) ==
    IF ids = <<>> THEN <<>> ELSE <<Call("deleteImage", ids[1])>>

CleanupCalls(ids) == [i \in DOMAIN ids |-> Call("deleteImage", ids[i])]

InvalidTypeError == "Invalid image type. Allowed: image/jpeg, image/jpg, image/png, image/webp, image/gif"
TooLargeError == "Image file is too large (max 10MB)"

(***************************************************************************)
(* thumbnailIndex: /^\d+$/ and parseInt.                                   *)
(***************************************************************************)
Digits == {"0", "1", "2"}
DigitVal(c) == IF c = "0" THEN 0 ELSE IF c = "1" THEN 1 ELSE 2

IsDigits(v) == IsString(v) /\ v.s # <<>> /\ \A i \in DOMAIN v.s : v.s[i] \in Digits

RECURSIVE ParseInt(_)
ParseInt(s) == IF s = <<>> THEN 0 ELSE 10 * ParseInt(SubSeq(s, 1, Len(s) - 1)) + DigitVal(s[Len(s)])

Min(a, b) == IF a < b THEN a ELSE b
Max(a, b) == IF a > b THEN a ELSE b

TrueStr == <<"true">>
FalseStr == <<"false">>

\* description.trim() || null
TrimOrNull(s) == IF Trim(s) = <<>> THEN NullStr ELSE Trim(s)

(***************************************************************************)
(* POST /api/projects                                                      *)
(***************************************************************************)
TitleRequired == "Title is required"

\* Mutant: only the `!title` test is made.
TitleInvalid_FalsyOnly(title) == Falsy(title)

\* Mutant: a whitespace-only title is accepted.
TitleInvalid_NoTrim(title) == Falsy(title) \/ ~IsString(title)

\* !title || typeof title !== "string", then !title.trim()
TitleInvalid(title) == Falsy(title) \/ ~IsString(title) \/ Trim(title.s) = <<>>

\* The outcome of POST once the guard has passed: the response, the rows
\* created and the assets left in Cloudinary.
PostProject(form, fault) ==
    IF TitleInvalid(form.title)
    THEN [status |-> 400, error |-> TitleRequired, calls |-> <<>>,
          row |-> NoProject, imageIds |-> <<>>, assets |-> assets, uploads |-> 0]
    ELSE
      LET imageFiles == ImageFilesOf(form.image)
          loop == UploadLoop(imageFiles, <<>>, counters.asset, fault.upload)
          up == loop.uploaded
          live == assets \cup SeqToSet(up)
          thumbnailIndex ==
              IF IsDigits(form.thumbnailIndex)
              THEN Min(Max(0, ParseInt(form.thumbnailIndex.s)), Max(0, Len(up) - 1))
              ELSE 0
          imagePublicId == IF up = <<>> THEN 0 ELSE up[thumbnailIndex + 1]
          row == [exists |-> TRUE,
                  title |-> Trim(form.title.s),
                  description |-> IF ~Falsy(form.description) /\ IsString(form.description)
                                  THEN TrimOrNull(form.description.s) ELSE NullStr,
                  category |-> IF ~Falsy(form.category) /\ IsString(form.category)
                               THEN TrimOrNull(form.category.s) ELSE NullStr,
                  featured |-> IF IsString(form.featured) THEN form.featured.s = TrueStr ELSE FALSE,
                  imagePublicId |-> imagePublicId,
                  cloudinaryFolder |-> FALSE,
                  createdAt |-> counters.project]
      IN CASE loop.outcome = "badType" ->
                [status |-> 400, error |-> InvalidTypeError, calls |-> UploadCalls(loop),
                 row |-> NoProject, imageIds |-> <<>>, assets |-> live, uploads |-> Len(up)]
           [] loop.outcome = "tooLarge" ->
                [status |-> 400, error |-> TooLargeError, calls |-> UploadCalls(loop),
                 row |-> NoProject, imageIds |-> <<>>, assets |-> live, uploads |-> Len(up)]
           [] loop.outcome = "throw" ->
                [status |-> 500, error |-> "Failed to create project",
                 calls |-> UploadCalls(loop) \o CleanupCalls(up),
                 row |-> NoProject, imageIds |-> <<>>,
                 assets |-> CleanupAssets(live, up, fault), uploads |-> Len(up)]
           [] loop.outcome = "done" /\ fault.db = 1 ->
                [status |-> 500, error |-> "Failed to create project",
                 calls |-> UploadCalls(loop) \o <<Call("project.create", 0)>> \o CleanupCalls(up),
                 row |-> NoProject, imageIds |-> <<>>,
                 assets |-> CleanupAssets(live, up, fault), uploads |-> Len(up)]
           [] loop.outcome = "done" /\ fault.db # 1 ->
                [status |-> 201, error |-> None,
                 calls |-> UploadCalls(loop) \o <<Call("project.create", 0)>>,
                 row |-> row, imageIds |-> up, assets |-> live, uploads |-> Len(up)]

\* POST: requireAdmin() first; on failure the guard's response is returned.
POST_projects(session, form, fault) ==
    /\ resp = RespIdle
    /\ counters.project <= MaxProjects
    /\ counters.asset + Len(ImageFilesOf(form.image)) - 1 <= MaxAssets
    /\ LET adminResult == requireAdmin(session)
           id == counters.project
           req == Request(0, form, fault, NoBody)
       IN /\ guard' = GuardCall("requireAdmin", session, FALSE, <<>>, adminResult)
          /\ IF ~adminResult.ok
             THEN /\ resp' = Response("POST /api/projects", req, adminResult.status,
                                      adminResult.error, <<>>, NoProject)
                  /\ UNCHANGED <<projects, images, assets, counters>>
             ELSE LET r == PostProject(form, fault)
                  IN /\ resp' = Response("POST /api/projects", req, r.status, r.error, r.calls, r.row)
                     /\ projects' = IF r.status = 201
                                    THEN [projects EXCEPT ![id] = r.row] ELSE projects
                     /\ images' = images \cup
                            {[projectId |-> id, imagePublicId |-> r.imageIds[i], sortOrder |-> i - 1] :
                                i \in DOMAIN r.imageIds}
                     /\ assets' = r.assets
                     /\ counters' = [counters EXCEPT
                            !.project = IF r.status = 201 THEN @ + 1 ELSE @,
                            !.asset = @ + r.uploads]
    /\ UNCHANGED <<tags, projectTags, settings>>
    /\ UNCHANGED <<authVars, running>>

(***************************************************************************)
(* resolveTagNamesToIds (src/lib/tags.ts)                                  *)
(***************************************************************************)
\* The first loop: trimmed, non-blank names, first occurrence per lower-case key.
RECURSIVE DedupeNames(_, _, _)
DedupeNames(names, seen, toCreate) ==
    IF names = <<>> THEN toCreate
    ELSE LET trimmed == Trim(Head(names))
             key == Lower(trimmed)
         IN IF trimmed = <<>> \/ key \in seen
            THEN DedupeNames(Tail(names), seen, toCreate)
            ELSE DedupeNames(Tail(names), seen \cup {key}, Append(toCreate, trimmed))

\* existingLower.get(key) after the findMany: the id of an existing tag whose
\* name equals key ignoring case (0 when there is none).
ExistingTagId(table, key) ==
    IF \E t \in table : Lower(t.name) = key
    THEN (CHOOSE t \in table : Lower(t.name) = key /\
              \A q \in table : Lower(q.name) = key => q.id <= t.id).id
    ELSE 0

\* Mutant: the lookup compares names exactly, not ignoring case.
resolveTagNamesToIds_CaseSensitive(names) ==
    LET toCreate == DedupeNames(names, {}, <<>>)
        toInsert == SelectSeq(toCreate, LAMBDA n : ~\E t \in tags : t.name = n)
        created == {[id |-> counters.tag + i - 1, name |-> toInsert[i]] : i \in DOMAIN toInsert}
        all == tags \cup created
    IN [ids |-> [i \in DOMAIN toCreate |-> ExistingTagId(all, Lower(toCreate[i]))],
        created |-> created,
        calls |-> <<>>]

resolveTagNamesToIds(names) ==
    LET toCreate == DedupeNames(names, {}, <<>>)
        toInsert == SelectSeq(toCreate, LAMBDA n : ExistingTagId(tags, Lower(n)) = 0)
        created == {[id |-> counters.tag + i - 1, name |-> toInsert[i]] : i \in DOMAIN toInsert}
        all == tags \cup created
    IN IF toCreate = <<>> THEN [ids |-> <<>>, created |-> {}, calls |-> <<>>]
       ELSE [ids |-> [i \in DOMAIN toCreate |-> ExistingTagId(all, Lower(toCreate[i]))],
             created |-> created,
             calls |-> <<Call("tag.findMany", 0)>> \o
                       [i \in DOMAIN toInsert |-> Call("tag.create", counters.tag + i - 1)]]

(***************************************************************************)
(* PATCH /api/projects/[id]                                                *)
(***************************************************************************)
\* parsed.filter(string).map(trim).filter(Boolean), [] otherwise
TagNamesOf(tagsRaw) ==
    IF tagsRaw.kind # "array" THEN <<>>
    ELSE LET strs == SelectSeq(tagsRaw.items, LAMBDA v : IsString(v))
             trimmed == [i \in DOMAIN strs |-> Trim(strs[i].s)]
         IN SelectSeq(trimmed, LAMBDA n : n # <<>>)

\* findUnique(... images: { orderBy: { sortOrder: "asc" } }): the rows by
\* ascending sortOrder (rows of equal sortOrder by public ID).
RECURSIVE SortImages(_)
SortImages(S) ==
    IF S = {} THEN <<>>
    ELSE LET m == CHOOSE r \in S : \A q \in S :
                      \/ r.sortOrder < q.sortOrder
                      \/ (r.sortOrder = q.sortOrder /\ r.imagePublicId <= q.imagePublicId)
         IN <<m>> \o SortImages(S \ {m})

PublicIds(rows) == [i \in DOMAIN rows |-> rows[i].imagePublicId]

\* for (const publicId of ...) { try { await deleteImage(publicId) } catch { return 500 } }
RECURSIVE DeleteLoop(_, _, _, _)
DeleteLoop(ids, live, destroyFail, calls) ==
    IF ids = <<>> THEN [ok |-> TRUE, assets |-> live, calls |-> calls]
    ELSE IF Head(ids) = destroyFail
         THEN [ok |-> FALSE, assets |-> live,
               calls |-> Append(calls, Call("deleteImage", Head(ids)))]
    ELSE DeleteLoop(Tail(ids), live \ {Head(ids)}, destroyFail,
                    Append(calls, Call("deleteImage", Head(ids))))

\* Mutant: the primary image is left out.
PublicIdsToDelete_ImagesOnly(existing, exImages) == PublicIds(exImages)

\* new Set(existing.images.map(i => i.imagePublicId)) plus existing.imagePublicId,
\* in insertion order
PublicIdsToDelete(existing, exImages) ==
    IF existing.imagePublicId # 0 /\ existing.imagePublicId \notin SeqToSet(PublicIds(exImages))
    THEN Append(PublicIds(exImages), existing.imagePublicId)
    ELSE PublicIds(exImages)

NewImageRows(id, up, base) ==
    {[projectId |-> id, imagePublicId |-> up[i], sortOrder |-> base + i - 1] : i \in DOMAIN up}

\* Mutant: an omitted description or featured field is stored as null / false.
PatchText_DefaultsOnOmit(existing, form) ==
    [existing EXCEPT
        !.title = Trim(form.title.s),
        !.description = IF IsString(form.description)
                        THEN TrimOrNull(form.description.s) ELSE NullStr,
        !.featured = IF IsString(form.featured) THEN form.featured.s = TrueStr ELSE FALSE]

\* description / featured of the update
PatchText(existing, form) ==
    [existing EXCEPT
        !.title = Trim(form.title.s),
        !.description = IF IsString(form.description)
                        THEN TrimOrNull(form.description.s) ELSE existing.description,
        !.featured = IF IsString(form.featured)
                     THEN form.featured.s = TrueStr ELSE existing.featured]

PatchOut(status, error, calls, row, imgs, live, uploads, tagRes, tagged) ==
    [status |-> status, error |-> error, calls |-> calls, row |-> row, images |-> imgs,
     assets |-> live, uploads |-> uploads, tagsCreated |-> tagRes.created,
     tagged |-> tagged, tagIds |-> tagRes.ids]

NoTags == [ids |-> <<>>, created |-> {}, calls |-> <<>>]

\* The thumbnailIndex step after a successful update, and the 200 response.
PatchFinish(id, form, fault, calls, row, imgs, live, up, tagRes) ==
    LET sorted == SortImages(imgs)
        calls1 == Append(calls, Call("project.findUnique", 0))
    IN IF sorted # <<>> /\ IsDigits(form.thumbnailIndex)
       THEN LET idx == Min(Max(0, ParseInt(form.thumbnailIndex.s)), Len(sorted) - 1)
                img == sorted[idx + 1]
                calls2 == Append(calls1, Call("project.update", 0))
            IN IF fault.db = 2
               THEN PatchOut(500, "Failed to update project", calls2 \o CleanupCalls(up),
                             row, imgs, CleanupAssets(live, up, fault), Len(up), tagRes, TRUE)
               ELSE PatchOut(200, None, Append(calls2, Call("project.findUnique", 0)),
                             [row EXCEPT !.imagePublicId = img.imagePublicId],
                             imgs, live, Len(up), tagRes, TRUE)
       ELSE PatchOut(200, None, calls1, row, imgs, live, Len(up), tagRes, TRUE)

\* The validate-and-upload loop of PATCH followed by prisma.project.update.
\* imgs: the ProjectImage rows left by deleteMany; base: sortOrder of the
\* first new row; primary: imagePublicId when no file is uploaded.
PatchUploadAndUpdate(id, form, fault, calls, existing, imgs, live, kept, setFolder, tagRes) ==
    LET imageFiles == ImageFilesOf(form.image)
        loop == UploadLoop(imageFiles, <<>>, counters.asset, fault.upload)
        up == loop.uploaded
        live1 == live \cup SeqToSet(up)
        calls1 == calls \o UploadCalls(loop)
        newImagePublicId ==
            IF kept # <<>> THEN kept[1].imagePublicId
            ELSE IF up # <<>> THEN up[1] ELSE 0
        row == [PatchText(existing, form) EXCEPT
                   !.imagePublicId = newImagePublicId,
                   !.cloudinaryFolder = existing.cloudinaryFolder \/ setFolder]
        imgs1 == imgs \cup NewImageRows(id, up, Len(kept))
    IN CASE loop.outcome = "badType" ->
              PatchOut(400, InvalidTypeError, calls1, existing, imgs, live1, Len(up), tagRes, FALSE)
         [] loop.outcome = "tooLarge" ->
              PatchOut(400, TooLargeError, calls1, existing, imgs, live1, Len(up), tagRes, FALSE)
         [] loop.outcome = "throw" ->
              PatchOut(500, "Failed to update project", calls1 \o CleanupCalls(up),
                       existing, imgs, CleanupAssets(live1, up, fault), Len(up), tagRes, FALSE)
         [] loop.outcome = "done" /\ fault.db = 1 ->
              PatchOut(500, "Failed to update project",
                       Append(calls1, Call("project.update", 0)) \o CleanupCalls(up),
                       existing, imgs, CleanupAssets(live1, up, fault), Len(up), tagRes, FALSE)
         [] loop.outcome = "done" /\ fault.db # 1 ->
              PatchFinish(id, form, fault, Append(calls1, Call("project.update", 0)),
                          row, imgs1, live1, up, tagRes)

\* The outcome of PATCH for an existing project once the guard has passed.
\* Mutant: the keep/add branch without its check.
NoImageLeft_Never(kept, imageFiles) == FALSE

\* kept.length === 0 && imageFiles.length === 0
NoImageLeft(kept, imageFiles) == kept = <<>> /\ imageFiles = <<>>

PatchProject(id, form, fault) ==
    LET existing == projects[id]
        exImages == SortImages(ImagesOf(id))
        calls0 == <<Call("project.findUnique", 0)>>
    IN IF TitleInvalid(form.title)
       THEN PatchOut(400, TitleRequired, calls0, existing, ImagesOf(id), assets, 0, NoTags, FALSE)
       ELSE
         LET imageFiles == ImageFilesOf(form.image)
             tagRes == resolveTagNamesToIds(TagNamesOf(form.tags))
             calls1 == calls0 \o tagRes.calls
         IN IF form.removeImage = Str(TrueStr)
            THEN \* remove all images, then add the new ones
              IF imageFiles = <<>>
              THEN PatchOut(400, "At least one image is required. Add new images before removing all.",
                            calls1, existing, ImagesOf(id), assets, 0, tagRes, FALSE)
              ELSE LET del == DeleteLoop(PublicIdsToDelete(existing, exImages), assets,
                                         fault.destroy, <<>>)
                   IN IF ~del.ok
                      THEN PatchOut(500, "Failed to delete existing image", calls1 \o del.calls,
                                    existing, ImagesOf(id), del.assets, 0, tagRes, FALSE)
                      ELSE PatchUploadAndUpdate(id, form, fault,
                               Append(calls1 \o del.calls, Call("projectImage.deleteMany", 0)),
                               existing, {}, del.assets, <<>>, TRUE, tagRes)
            ELSE IF Cardinality(form.keepPublicIds) < Len(exImages) \/ imageFiles # <<>>
            THEN \* remove some existing images and/or add new ones
              LET toDelete == SelectSeq(exImages, LAMBDA i : i.imagePublicId \notin form.keepPublicIds)
                  kept == SelectSeq(exImages, LAMBDA i : i.imagePublicId \in form.keepPublicIds)
              IN IF NoImageLeft(kept, imageFiles)
                 THEN PatchOut(400, "At least one image is required", calls1,
                               existing, ImagesOf(id), assets, 0, tagRes, FALSE)
                 ELSE LET del == DeleteLoop(PublicIds(toDelete), assets, fault.destroy, <<>>)
                      IN IF ~del.ok
                         THEN PatchOut(500, "Failed to delete project image", calls1 \o del.calls,
                                       existing, ImagesOf(id), del.assets, 0, tagRes, FALSE)
                         ELSE PatchUploadAndUpdate(id, form, fault,
                                  Append(calls1 \o del.calls, Call("projectImage.deleteMany", 0)),
                                  existing, SeqToSet(kept), del.assets, kept, FALSE, tagRes)
            ELSE \* no image change: text, featured and tags only
              IF fault.db = 1
              THEN PatchOut(500, "Failed to update project", Append(calls1, Call("project.update", 0)),
                            existing, ImagesOf(id), assets, 0, tagRes, FALSE)
              ELSE PatchFinish(id, form, fault, Append(calls1, Call("project.update", 0)),
                               PatchText(existing, form), ImagesOf(id), assets, <<>>, tagRes)

\* Mutant: the nested write of projectTags without deleteMany.
ProjectTagsUpdate_NoDeleteMany(id, tagIds) ==
    projectTags \cup {[projectId |-> id, tagId |-> t] : t \in SeqToSet(tagIds)}

\* projectTags: { deleteMany: {}, create: tagIds.map(...) } of project.update.
ProjectTagsUpdate(id, tagIds) ==
    {pt \in projectTags : pt.projectId # id} \cup
    {[projectId |-> id, tagId |-> t] : t \in SeqToSet(tagIds)}

\* PATCH: verifyAdmin() is called without arguments.
PATCH_project(session, id, form, fault) ==
    /\ resp = RespIdle
    /\ counters.asset + Len(ImageFilesOf(form.image)) - 1 <= MaxAssets
    /\ counters.tag + Cardinality(resolveTagNamesToIds(TagNamesOf(form.tags)).created) - 1 <= MaxTags
    /\ LET adminResult == verifyAdmin(session, FALSE, <<>>)
           op == "PATCH /api/projects/[id]"
           req == Request(id, form, fault, NoBody)
       IN /\ guard' = GuardCall("verifyAdmin", session, FALSE, <<>>, adminResult)
          /\ IF ~adminResult.ok
             THEN /\ resp' = Response(op, req, adminResult.status, adminResult.error, <<>>, NoProject)
                  /\ UNCHANGED <<projects, images, tags, projectTags, assets, counters>>
             ELSE IF ~(id \in ProjectIds /\ projects[id].exists)
             THEN /\ resp' = Response(op, req, 404, "Project not found",
                                      <<Call("project.findUnique", 0)>>, NoProject)
                  /\ UNCHANGED <<projects, images, tags, projectTags, assets, counters>>
             ELSE LET r == PatchProject(id, form, fault)
                  IN /\ resp' = Response(op, req, r.status, r.error, r.calls,
                                         IF r.status = 200 THEN r.row ELSE NoProject)
                     /\ projects' = [projects EXCEPT ![id] = r.row]
                     /\ images' = (images \ ImagesOf(id)) \cup r.images
                     /\ tags' = tags \cup r.tagsCreated
                     /\ projectTags' =
                            IF r.tagged THEN ProjectTagsUpdate(id, r.tagIds) ELSE projectTags
                     /\ assets' = r.assets
                     /\ counters' = [counters EXCEPT
                            !.asset = @ + r.uploads,
                            !.tag = @ + Cardinality(r.tagsCreated)]
    /\ UNCHANGED settings
    /\ UNCHANGED <<authVars, running>>

(***************************************************************************)
(* DELETE /api/projects/[id]                                               *)
(***************************************************************************)
DeleteProject(id, fault) ==
    LET existing == projects[id]
        del == DeleteLoop(PublicIdsToDelete(existing, SortImages(ImagesOf(id))), assets,
                          fault.destroy, <<Call("project.findUnique", 0)>>)
        calls1 == IF existing.cloudinaryFolder
                  THEN Append(del.calls, Call("deleteFolder", 0)) ELSE del.calls
    IN IF ~del.ok
       THEN [status |-> 500, error |-> "Failed to delete project image", calls |-> del.calls,
             assets |-> del.assets, deleted |-> FALSE]
       ELSE IF fault.db = 1
       THEN [status |-> 500, error |-> "Failed to delete project",
             calls |-> Append(calls1, Call("project.delete", 0)),
             assets |-> del.assets, deleted |-> FALSE]
       ELSE [status |-> 200, error |-> None,
             calls |-> Append(calls1, Call("project.delete", 0)),
             assets |-> del.assets, deleted |-> TRUE]

DELETE_project(session, id, fault) ==
    /\ resp = RespIdle
    /\ LET adminResult == verifyAdmin(session, FALSE, <<>>)
           op == "DELETE /api/projects/[id]"
           req == Request(id, NoForm, fault, NoBody)
       IN /\ guard' = GuardCall("verifyAdmin", session, FALSE, <<>>, adminResult)
          /\ IF ~adminResult.ok
             THEN /\ resp' = Response(op, req, adminResult.status, adminResult.error, <<>>, NoProject)
                  /\ UNCHANGED <<projects, images, projectTags, assets>>
             ELSE IF ~(id \in ProjectIds /\ projects[id].exists)
             THEN /\ resp' = Response(op, req, 404, "Project not found",
                                      <<Call("project.findUnique", 0)>>, NoProject)
                  /\ UNCHANGED <<projects, images, projectTags, assets>>
             ELSE LET r == DeleteProject(id, fault)
                  IN /\ resp' = Response(op, req, r.status, r.error, r.calls, NoProject)
                     /\ assets' = r.assets
                     /\ projects' = IF r.deleted THEN [projects EXCEPT ![id] = NoProject]
                                    ELSE projects
                     \* ProjectImage and ProjectTag rows go with the project (ON DELETE CASCADE)
                     /\ images' = IF r.deleted THEN images \ ImagesOf(id) ELSE images
                     /\ projectTags' = IF r.deleted
                                       THEN {pt \in projectTags : pt.projectId # id}
                                       ELSE projectTags
    /\ UNCHANGED <<tags, settings, counters>>
    /\ UNCHANGED <<authVars, running>>

(***************************************************************************)
(* PATCH and DELETE /api/tags/[id]                                         *)
(***************************************************************************)
TagExists(id) == \E t \in tags : t.id = id

\* The response of a request whose handler let an exception escape: the
\* handlers of /api/tags/[id] have no try/catch, so a prisma call that throws
\* ends the handler and the framework answers 500 without a JSON body.
Unhandled == "<unhandled exception>"

\* Mutant: the conflict lookup compares names exactly.
TagConflict_CaseSensitive(id, name) == \E t \in tags : t.name = name /\ t.id # id

\* prisma.tag.findFirst({ name: { equals, mode: "insensitive" }, id: { not: id } })
TagConflict(id, name) == \E t \in tags : Lower(t.name) = Lower(name) /\ t.id # id

\* body.name: a string is trimmed, anything else is null.  fault.db = k: the
\* k-th prisma call of the handler throws.
PATCH_tag(session, id, nameField, fault) ==
    /\ resp = RespIdle
    /\ LET adminResult == requireAdmin(session)
           op == "PATCH /api/tags/[id]"
           req == Request(id, NoForm, fault, TagBody(nameField))
           name == IF IsString(nameField) THEN Trim(nameField.s) ELSE <<>>
           find == <<Call("tag.findUnique", id)>>
           first == Append(find, Call("tag.findFirst", 0))
           update == Append(first, Call("tag.update", id))
       IN /\ guard' = GuardCall("requireAdmin", session, FALSE, <<>>, adminResult)
          /\ IF ~adminResult.ok
             THEN /\ resp' = Response(op, req, adminResult.status, adminResult.error, <<>>, NoProject)
                  /\ UNCHANGED tags
             ELSE IF name = <<>>
             THEN /\ resp' = Response(op, req, 400, "Name is required", <<>>, NoProject)
                  /\ UNCHANGED tags
             ELSE IF fault.db = 1
             THEN /\ resp' = Response(op, req, 500, Unhandled, find, NoProject)
                  /\ UNCHANGED tags
             ELSE IF ~TagExists(id)
             THEN /\ resp' = Response(op, req, 404, "Tag not found", find, NoProject)
                  /\ UNCHANGED tags
             ELSE IF fault.db = 2
             THEN /\ resp' = Response(op, req, 500, Unhandled, first, NoProject)
                  /\ UNCHANGED tags
             ELSE IF TagConflict(id, name)
             THEN /\ resp' = Response(op, req, 409, "A tag with that name already exists",
                                      first, NoProject)
                  /\ UNCHANGED tags
             ELSE IF fault.db = 3
             THEN /\ resp' = Response(op, req, 500, Unhandled, update, NoProject)
                  /\ UNCHANGED tags
             ELSE /\ resp' = Response(op, req, 200, None, update, NoProject)
                  /\ tags' = {t \in tags : t.id # id} \cup {[id |-> id, name |-> name]}
    /\ UNCHANGED <<projects, images, projectTags, settings, assets, counters>>
    /\ UNCHANGED <<authVars, running>>

\* Mutant: deleteMany without its where clause.
TagLinksLeft_None(id) == {}

\* prisma.projectTag.deleteMany({ where: { tagId: id } }): the rows left.
TagLinksLeft(id) == {pt \in projectTags : pt.tagId # id}

\* Mutant: the tag is looked up before the guard is consulted.
DELETE_tag_LookupFirst(session, id, fault) ==
    /\ resp = RespIdle
    /\ LET adminResult == requireAdmin(session)
           op == "DELETE /api/tags/[id]"
           req == Request(id, NoForm, fault, NoBody)
       IN /\ guard' = GuardCall("requireAdmin", session, FALSE, <<>>, adminResult)
          /\ IF ~TagExists(id)
             THEN /\ resp' = Response(op, req, 404, "Tag not found",
                                      <<Call("tag.findUnique", id)>>, NoProject)
                  /\ UNCHANGED <<tags, projectTags>>
             ELSE IF ~adminResult.ok
             THEN /\ resp' = Response(op, req, adminResult.status, adminResult.error,
                                      <<Call("tag.findUnique", id)>>, NoProject)
                  /\ UNCHANGED <<tags, projectTags>>
             ELSE /\ resp' = Response(op, req, 200, None,
                                      <<Call("tag.findUnique", id),
                                        Call("projectTag.deleteMany", id),
                                        Call("tag.delete", id)>>, NoProject)
                  /\ projectTags' = TagLinksLeft(id)
                  /\ tags' = {t \in tags : t.id # id}
    /\ UNCHANGED <<projects, images, settings, assets, counters>>
    /\ UNCHANGED <<authVars, running>>

\* fault.db = k: the k-th prisma call of the handler throws; the two deletes
\* are separate calls, not a transaction.
DELETE_tag(session, id, fault) ==
    /\ resp = RespIdle
    /\ LET adminResult == requireAdmin(session)
           op == "DELETE /api/tags/[id]"
           req == Request(id, NoForm, fault, NoBody)
           find == <<Call("tag.findUnique", id)>>
           many == Append(find, Call("projectTag.deleteMany", id))
           delete == Append(many, Call("tag.delete", id))
       IN /\ guard' = GuardCall("requireAdmin", session, FALSE, <<>>, adminResult)
          /\ IF ~adminResult.ok
             THEN /\ resp' = Response(op, req, adminResult.status, adminResult.error, <<>>, NoProject)
                  /\ UNCHANGED <<tags, projectTags>>
             ELSE IF fault.db = 1
             THEN /\ resp' = Response(op, req, 500, Unhandled, find, NoProject)
                  /\ UNCHANGED <<tags, projectTags>>
             ELSE IF ~TagExists(id)
             THEN /\ resp' = Response(op, req, 404, "Tag not found", find, NoProject)
                  /\ UNCHANGED <<tags, projectTags>>
             ELSE IF fault.db = 2
             THEN /\ resp' = Response(op, req, 500, Unhandled, many, NoProject)
                  /\ UNCHANGED <<tags, projectTags>>
             ELSE IF fault.db = 3
             THEN /\ resp' = Response(op, req, 500, Unhandled, delete, NoProject)
                  /\ projectTags' = TagLinksLeft(id)
                  /\ UNCHANGED tags
             ELSE /\ resp' = Response(op, req, 200, None, delete, NoProject)
                  /\ projectTags' = TagLinksLeft(id)
                  /\ tags' = {t \in tags : t.id # id}
    /\ UNCHANGED <<projects, images, settings, assets, counters>>
    /\ UNCHANGED <<authVars, running>>

(***************************************************************************)
(* PATCH /api/site-settings and PATCH /api/projects/order.  Their route    *)
(* files are not part of the sources; they are modelled from their tests.  *)
(***************************************************************************)
\* Mutant: the key is not trimmed before it is tested.
KeyInvalid_NoTrim(key) == ~IsString(key) \/ key.s = <<>>

\* The key of the body is missing, not a string, or blank.
KeyInvalid(key) == ~IsString(key) \/ Trim(key.s) = <<>>

PATCH_siteSettings(session, body) ==
    /\ resp = RespIdle
    /\ LET adminResult == requireAdmin(session)
           op == "PATCH /api/site-settings"
           req == Request(0, NoForm, NoFault, body)
           value == IF IsString(body.value) THEN body.value.s ELSE <<>>
       IN /\ guard' = GuardCall("requireAdmin", session, FALSE, <<>>, adminResult)
          /\ IF ~adminResult.ok
             THEN /\ resp' = Response(op, req, adminResult.status, adminResult.error, <<>>, NoProject)
                  /\ UNCHANGED settings
             ELSE IF ~body.valid
             THEN /\ resp' = Response(op, req, 400, "Invalid JSON body", <<>>, NoProject)
                  /\ UNCHANGED settings
             ELSE IF KeyInvalid(body.key)
             THEN /\ resp' = Response(op, req, 400, "Missing or invalid key", <<>>, NoProject)
                  /\ UNCHANGED settings
             ELSE /\ resp' = Response(op, req, 200, None, <<Call("siteSetting.upsert", 0)>>, NoProject)
                  /\ settings' = {r \in settings : r.key # body.key.s} \cup
                                 {[key |-> body.key.s, value |-> value]}
    /\ UNCHANGED <<projects, images, tags, projectTags, assets, counters>>
    /\ UNCHANGED <<authVars, running>>

\* The createdAt values of the listed existing projects, largest first.
RECURSIVE SortDesc(_)
SortDesc(S) == IF S = {} THEN <<>>
               ELSE LET m == CHOOSE x \in S : \A y \in S : y <= x
                    IN <<m>> \o SortDesc(S \ {m})

\* Mutant: the IDs the database does not know are updated too.
KnownIds_All(ids) == ids

\* The IDs of the list that findMany({ where: { id: { in: ids } } }) returned
\* a project for, in the order of the list.
KnownIds(ids) == SelectSeq(ids, LAMBDA i : i \in ProjectIds /\ projects[i].exists)

PATCH_order(session, body) ==
    /\ resp = RespIdle
    /\ LET adminResult == requireAdmin(session)
           op == "PATCH /api/projects/order"
           req == Request(0, NoForm, NoFault, body)
           valid == SelectSeq(body.ids, LAMBDA i : i # 0)
           known == KnownIds(valid)
           stamps == SortDesc({projects[known[k]].createdAt : k \in DOMAIN known})
       IN /\ guard' = GuardCall("requireAdmin", session, FALSE, <<>>, adminResult)
          /\ IF ~adminResult.ok
             THEN /\ resp' = Response(op, req, adminResult.status, adminResult.error, <<>>, NoProject)
                  /\ UNCHANGED projects
             ELSE IF ~body.isArray \/ body.ids = <<>>
             THEN /\ resp' = Response(op, req, 400,
                                      "orderedIds must be a non-empty array of project IDs",
                                      <<>>, NoProject)
                  /\ UNCHANGED projects
             ELSE IF valid = <<>>
             THEN /\ resp' = Response(op, req, 400,
                                      "orderedIds must contain at least one valid project ID",
                                      <<>>, NoProject)
                  /\ UNCHANGED projects
             ELSE /\ resp' = Response(op, req, 200, None,
                                      <<Call("project.findMany", 0)>> \o
                                      [k \in DOMAIN known |-> Call("project.update", known[k])] \o
                                      <<Call("$transaction", Len(known))>>,
                                      NoProject)
                  /\ projects' = [p \in ProjectIds |->
                        IF \E k \in DOMAIN known : known[k] = p
                        THEN [projects[p] EXCEPT !.createdAt =
                                  stamps[CHOOSE k \in DOMAIN known : known[k] = p]]
                        ELSE projects[p]]
    /\ UNCHANGED <<images, tags, projectTags, settings, assets, counters>>
    /\ UNCHANGED <<authVars, running>>

\* The response is delivered; the next request can be handled.
Reply ==
    /\ resp # RespIdle
    /\ resp' = RespIdle
    /\ guard' = GuardIdle
    /\ UNCHANGED <<projects, images, tags, projectTags, settings, assets, counters>>
    /\ UNCHANGED <<authVars, running>>

(***************************************************************************)
(* Actions of the authentication environment.                              *)
(***************************************************************************)
NoUser == [exists |-> FALSE, isAdmin |-> FALSE]
NoSessionRow == [exists |-> FALSE, expires |-> 0]

\* Google sign-in of user u: the user row is created if absent and its
\* isAdmin is synchronised from the allow-list; a session row is persisted
\* and the client receives a session whose payload embeds that isAdmin.
SignIn(u, allowed) ==
    /\ users' = [users EXCEPT ![u] = [exists |-> TRUE, isAdmin |-> allowed]]
    /\ sessionRows' = [sessionRows EXCEPT ![TokenOf(u)] =
                          [exists |-> TRUE, expires |-> now + SessionTTL]]
    /\ minted' = [minted EXCEPT ![u] = @ \cup {allowed}]
    /\ guard' = GuardIdle
    /\ UNCHANGED now
    /\ UNCHANGED apiVars

\* User.isAdmin is flipped in the database (grant or revocation).
SetAdmin(u, b) ==
    /\ users[u].exists
    /\ users[u].isAdmin # b
    /\ users' = [users EXCEPT ![u].isAdmin = b]
    /\ guard' = GuardIdle
    /\ UNCHANGED <<sessionRows, now, minted>>
    /\ UNCHANGED apiVars

\* The user row is deleted; its session rows go with it (onDelete: Cascade).
DeleteUser(u) ==
    /\ users[u].exists
    /\ users' = [users EXCEPT ![u] = NoUser]
    /\ sessionRows' = [sessionRows EXCEPT ![TokenOf(u)] = NoSessionRow]
    /\ guard' = GuardIdle
    /\ UNCHANGED <<now, minted>>
    /\ UNCHANGED apiVars

\* Time passes.
Tick ==
    /\ now < MaxTime
    /\ now' = now + 1
    /\ guard' = GuardIdle
    /\ UNCHANGED <<users, sessionRows, minted>>
    /\ UNCHANGED apiVars

(***************************************************************************)
(* Guard calls.  Requests are answered one at a time: a call starts from   *)
(* the idle record and its result is handed back before the next one.      *)
(***************************************************************************)
GuardReturn ==
    /\ guard # GuardIdle
    /\ guard' = GuardIdle
    /\ UNCHANGED <<authVars, running>>
    /\ UNCHANGED apiVars

RequireAdminCall(session) ==
    /\ guard = GuardIdle
    /\ guard' = GuardCall("requireAdmin", session, FALSE, <<>>, requireAdmin(session))
    /\ UNCHANGED <<authVars, running>>
    /\ UNCHANGED apiVars

VerifyAdminCall(session, hasRequest, header) ==
    /\ guard = GuardIdle
    /\ guard' = GuardCall("verifyAdmin", session, hasRequest, header,
                          verifyAdmin(session, hasRequest, header))
    /\ UNCHANGED <<authVars, running>>
    /\ UNCHANGED apiVars

vars == <<users, sessionRows, now, minted, guard,
          projects, images, tags, projectTags, settings, assets, counters, resp, running>>

AuthInit ==
    /\ users = [u \in UserIds |-> NoUser]
    /\ sessionRows = [t \in Tokens |-> NoSessionRow]
    /\ now = 0
    /\ minted = [u \in UserIds |-> {}]
    /\ guard = GuardIdle
    /\ ApiEmpty

GuardNext ==
    \/ \E u \in UserIds, allowed \in BOOLEAN : SignIn(u, allowed)
    \/ \E u \in UserIds, b \in BOOLEAN : SetAdmin(u, b)
    \/ \E u \in UserIds : DeleteUser(u)
    \/ Tick
    \/ GuardReturn
    \/ \E s \in HeldSessions : RequireAdminCall(s)
    \/ \E s \in HeldSessions, hasRequest \in BOOLEAN, header \in CookieHeaders :
          /\ (~hasRequest => header = <<>>)
          /\ VerifyAdminCall(s, hasRequest, header)

SpecGuard == AuthInit /\ [][GuardNext]_vars

(***************************************************************************)
(* Requests.  The users of the content API: u1 signed in from the          *)
(* allow-list (admin), u2 signed in without being on it.                   *)
(***************************************************************************)
Admin == SessionOf("u1", "full", TRUE)
Visitor == SessionOf("u2", "full", FALSE)
ApiSessions == {NoSession, Admin, Visitor}

ApiInit ==
    /\ users = [u \in UserIds |-> [exists |-> TRUE, isAdmin |-> (u = "u1")]]
    /\ sessionRows = [t \in Tokens |-> [exists |-> TRUE, expires |-> SessionTTL]]
    /\ now = 0
    /\ minted = [u \in UserIds |-> {u = "u1"}]
    /\ guard = GuardIdle
    /\ ApiEmpty

SeqsUpTo(S, n) == UNION {[1..k -> S] : k \in 0..n}

\* Image files: a valid one, one exactly at the size cap, one above the
\* cap, one of a type that is not allowed, and an empty file.
GoodJpeg == ImageFile("image/jpeg", 1)
PngAtCap == ImageFile("image/png", MAX_IMAGE_SIZE_BYTES)
TooLarge == ImageFile("image/jpeg", MAX_IMAGE_SIZE_BYTES + 1)
Svg == ImageFile("image/svg+xml", 1)
EmptyFile == ImageFile("image/png", 0)
ValidImageLists == SeqsUpTo({GoodJpeg}, MaxFiles)
ImageLists ==
    SeqsUpTo({GoodJpeg, TooLarge, Svg}, MaxFiles) \cup
    {<<PngAtCap>>, <<EmptyFile>>, <<EmptyFile, Svg>>, <<TextEntry, TooLarge>>}

ValidTitle == Str(<<" ", "a", " ">>)
Titles == {Missing, FileField, Str(<<>>), Str(<<" ">>), Str(<<" ", " ">>), ValidTitle}

\* keepPublicIds of a PATCH: any subset of the public IDs of the project's
\* images, or every public ID there is, or one ID (0) that no image has.
KeepSets(id) == (SUBSET {r.imagePublicId : r \in ImagesOf(id)}) \cup {AssetIds, {0}}

(***************************************************************************)
(* The project handlers under every combination of image files, of         *)
(* removeImage and of keepPublicIds.                                       *)
(***************************************************************************)
ProjectPosts ==
    {PostForm(t, Missing, Missing, Missing, Missing, img) :
        t \in Titles, img \in {<<>>, <<GoodJpeg>>, <<GoodJpeg, Svg>>}} \cup
    {PostForm(ValidTitle, Missing, Missing, Missing, th, img) :
        th \in {Missing, Str(<<"1">>)}, img \in ImageLists}

ProjectPatches(id) ==
    {PatchForm(t, Missing, NoTagsField, Missing, img, rm, {}, Missing) :
        t \in {Missing, Str(<<" ">>)}, img \in {<<>>, <<GoodJpeg>>},
        rm \in {Missing, Str(TrueStr)}} \cup
    {PatchForm(ValidTitle, Missing, NoTagsField, Missing, img, Str(TrueStr), {}, Missing) :
        img \in ImageLists} \cup
    {PatchForm(ValidTitle, Missing, NoTagsField, Missing, img, rm, keep, Missing) :
        img \in ImageLists, rm \in {Missing, Str(FalseStr)}, keep \in KeepSets(id)} \cup
    {PatchForm(ValidTitle, Missing, NoTagsField, Missing, img, Missing, keep, Str(<<"1">>)) :
        img \in ValidImageLists, keep \in KeepSets(id)}

\* A request reaches a handler when no other request is being answered.
PostProjectRequest ==
    /\ resp = RespIdle
    /\ \E session \in {NoSession, Admin}, form \in ProjectPosts :
          POST_projects(session, form, NoFault)

PatchProjectRequest ==
    /\ resp = RespIdle
    /\ \E session \in {NoSession, Admin}, id \in ProjectIds :
          \E form \in ProjectPatches(id) : PATCH_project(session, id, form, NoFault)

DeleteProjectRequest ==
    /\ resp = RespIdle
    /\ \E session \in {NoSession, Admin}, id \in ProjectIds :
          DELETE_project(session, id, NoFault)

ProjectsNext ==
    \/ PostProjectRequest
    \/ PatchProjectRequest
    \/ DeleteProjectRequest
    \/ Reply

SpecProjects == ApiInit /\ [][ProjectsNext]_vars

(***************************************************************************)
(* All mutating handlers, called by anonymous clients, by the visitor and  *)
(* by the admin.                                                           *)
(***************************************************************************)
TagInputs ==
    {NoTagsField, TagsField("invalid", <<>>), TagsField("array", <<Str(<<"a">>)>>),
     TagsField("array", <<Str(<<" ", "A">>), FileField, Str(<<"b">>), Str(<<"a">>)>>)}

ApiPosts ==
    {PostForm(t, Missing, Missing, Missing, Missing, img) :
        t \in {Missing, ValidTitle}, img \in {<<>>, <<GoodJpeg>>, <<Svg>>}}

ApiPatches ==
    {PatchForm(ValidTitle, Missing, tg, Missing, <<>>, Missing, AssetIds, Missing) :
        tg \in TagInputs} \cup
    {PatchForm(Str(<<" ">>), Missing, NoTagsField, Missing, <<GoodJpeg>>, Str(TrueStr), {}, Missing),
     PatchForm(ValidTitle, Missing, NoTagsField, Missing, <<Svg>>, Missing, AssetIds, Missing)}

TagIds == 1..MaxTags
TagNames == {Missing, FileField, Str(<<" ">>), Str(<<" ", "A">>)}

SettingsBodies ==
    {SettingsBody(FALSE, Missing, Missing)} \cup
    {SettingsBody(TRUE, k, v) :
        k \in {Missing, FileField, Str(<<" ">>), Str(<<"k">>)}, v \in {Missing, Str(<<"v">>)}}

\* orderedIds: not an array, or an array without repetitions of known ids
\* and of the unknown id MaxProjects + 1, or an array with the invalid item 0.
OrderBodies ==
    {OrderBody(FALSE, <<>>), OrderBody(TRUE, <<0>>), OrderBody(TRUE, <<0, 1>>)} \cup
    {OrderBody(TRUE, ids) : ids \in
        {q \in SeqsUpTo(1..(MaxProjects + 1), MaxProjects + 1) :
            \A i, j \in DOMAIN q : q[i] = q[j] => i = j}}

ApiPost ==
    /\ resp = RespIdle
    /\ \E session \in ApiSessions, form \in ApiPosts : POST_projects(session, form, NoFault)

ApiPatch ==
    /\ resp = RespIdle
    /\ \E session \in ApiSessions, id \in ProjectIds, form \in ApiPatches :
          PATCH_project(session, id, form, NoFault)

ApiDelete ==
    /\ resp = RespIdle
    /\ \E session \in ApiSessions, id \in ProjectIds : DELETE_project(session, id, NoFault)

ApiOrder ==
    /\ resp = RespIdle
    /\ \E session \in ApiSessions, body \in OrderBodies : PATCH_order(session, body)

ApiSettings ==
    /\ resp = RespIdle
    /\ \E session \in ApiSessions, body \in SettingsBodies : PATCH_siteSettings(session, body)

\* The k-th prisma call of a tag request throws, for requests of the admin.
DbFaults == {Fault(k, 0, 0, FALSE) : k \in 1..3}
TagCallers == (ApiSessions \X {NoFault}) \cup ({Admin} \X DbFaults)

ApiTagPatch ==
    /\ resp = RespIdle
    /\ \E c \in TagCallers, id \in TagIds, name \in TagNames :
          PATCH_tag(c[1], id, name, c[2])

ApiTagDelete ==
    /\ resp = RespIdle
    /\ \E c \in TagCallers, id \in TagIds : DELETE_tag(c[1], id, c[2])

ApiNext ==
    \/ ApiPost
    \/ ApiPatch
    \/ ApiDelete
    \/ ApiOrder
    \/ ApiSettings
    \/ ApiTagPatch
    \/ ApiTagDelete
    \/ Reply

SpecApi == ApiInit /\ [][ApiNext]_vars

(***************************************************************************)
(* The project handlers under downstream failures: requests with valid     *)
(* image files in which one database write, one upload or one delete       *)
(* throws, alone or together with a failing cleanup delete.                *)
(***************************************************************************)
Faults(next) ==
    {NoFault, Fault(0, 0, 0, TRUE)} \cup
    {Fault(db, 0, d, FALSE) : db \in 1..2, d \in {0, next}} \cup
    {Fault(0, up, d, FALSE) : up \in 1..MaxFiles, d \in {0, next}} \cup
    {Fault(0, 0, d, FALSE) : d \in AssetIds}

FaultyPosts ==
    {PostForm(ValidTitle, Missing, Missing, Missing, Missing, img) : img \in ValidImageLists}

FaultyPatches(id) ==
    {PatchForm(ValidTitle, Missing, NoTagsField, Missing, img, Str(TrueStr), {}, Missing) :
        img \in ValidImageLists} \cup
    {PatchForm(ValidTitle, Missing, NoTagsField, Missing, img, Missing, {}, Missing) :
        img \in ValidImageLists}

FaultyPost ==
    /\ resp = RespIdle
    /\ \E form \in FaultyPosts, fault \in Faults(counters.asset) :
          POST_projects(Admin, form, fault)

FaultyPatch ==
    /\ resp = RespIdle
    /\ \E id \in ProjectIds, fault \in Faults(counters.asset) :
          \E form \in FaultyPatches(id) : PATCH_project(Admin, id, form, fault)

FaultyDelete ==
    /\ resp = RespIdle
    /\ \E id \in ProjectIds, fault \in Faults(counters.asset) :
          DELETE_project(Admin, id, fault)

FaultsNext ==
    \/ FaultyPost
    \/ FaultyPatch
    \/ FaultyDelete
    \/ Reply

SpecFaults == ApiInit /\ [][FaultsNext]_vars

(***************************************************************************)
(* resolveTagNamesToIds called on its own: any list of up to MaxNames      *)
(* names against a Tag table whose names differ ignoring case (tags are    *)
(* only created by resolveTagNamesToIds and renamed by PATCH /api/tags,    *)
(* which both refuse a name that matches another tag ignoring case).       *)
(***************************************************************************)
MaxNames == 3
MaxTagRows == 4

NameInputs == {<<>>, <<" ">>, <<"a">>, <<" ", "A">>, <<"b", " ">>, <<"B">>}
NameLists == SeqsUpTo(NameInputs, MaxNames)

TagTables ==
    {{}, {[id |-> 1, name |-> <<"a">>]}, {[id |-> 1, name |-> <<"A">>]},
     {[id |-> 1, name |-> <<"B">>], [id |-> 2, name |-> <<"a">>]}}

TagsInit ==
    /\ users = [u \in UserIds |-> [exists |-> TRUE, isAdmin |-> (u = "u1")]]
    /\ sessionRows = [t \in Tokens |-> [exists |-> TRUE, expires |-> SessionTTL]]
    /\ now = 0
    /\ minted = [u \in UserIds |-> {u = "u1"}]
    /\ guard = GuardIdle
    /\ projects = [p \in ProjectIds |-> NoProject]
    /\ images = {}
    /\ tags \in TagTables
    /\ projectTags = {}
    /\ settings = {}
    /\ assets = {}
    /\ counters = [project |-> 1, asset |-> 1, tag |-> Cardinality(tags) + 1]
    /\ resp = RespIdle
    /\ running = [c \in Callers |-> NoCall]

\* The names of a call, carried as the tags field of the request.
NamesRequest(names) ==
    Request(0, [NoForm EXCEPT !.tags = TagsField("array", [i \in DOMAIN names |-> Str(names[i])])],
            NoFault, NoBody)

\* await resolveTagNamesToIds(names): the returned IDs are kept in ret.
ResolveTagNames ==
    /\ resp = RespIdle
    /\ \E names \in NameLists :
          LET r == resolveTagNamesToIds(names)
          IN /\ counters.tag + Cardinality(r.created) - 1 <= MaxTagRows
             /\ resp' = [Response("resolveTagNamesToIds", NamesRequest(names), 0, None,
                                  r.calls, NoProject) EXCEPT !.ret = r.ids]
             /\ tags' = tags \cup r.created
             /\ counters' = [counters EXCEPT !.tag = @ + Cardinality(r.created)]
    /\ guard' = GuardIdle
    /\ UNCHANGED <<projects, images, projectTags, settings, assets>>
    /\ UNCHANGED <<authVars, running>>

TagsNext ==
    \/ ResolveTagNames
    \/ Reply

SpecTags == TagsInit /\ [][TagsNext]_vars

(***************************************************************************)
(* replaceProjectImage (src/lib/cloudinary.ts) called on its own, for any  *)
(* old public ID, with uploadImage or deleteImage throwing.                *)
(***************************************************************************)
MaxReplaced == 5

\* Mutant: the old image is deleted before the new one is uploaded.
replaceProjectImage_DeleteFirst(oldPublicId, fault) ==
    LET uploaded == counters.asset
        live == IF oldPublicId # 0 /\ fault.destroy # oldPublicId
                THEN assets \ {oldPublicId} ELSE assets
        calls == IF oldPublicId # 0 THEN <<Call("deleteImage", oldPublicId)>> ELSE <<>>
    IN IF fault.upload = 1
       THEN [threw |-> TRUE, ret |-> <<>>, calls |-> Append(calls, Call("uploadImage", 0)),
             assets |-> live, uploads |-> 0]
       ELSE [threw |-> FALSE, ret |-> <<uploaded>>,
             calls |-> Append(calls, Call("uploadImage", uploaded)),
             assets |-> live \cup {uploaded}, uploads |-> 1]

\* uploadImage first (its error propagates), then a best-effort deleteImage
\* of the old public ID when there is one; the upload result is returned.
replaceProjectImage(oldPublicId, fault) ==
    LET uploaded == counters.asset
        live == assets \cup {uploaded}
    IN IF fault.upload = 1
       THEN [threw |-> TRUE, ret |-> <<>>, calls |-> <<Call("uploadImage", 0)>>,
             assets |-> assets, uploads |-> 0]
       ELSE IF oldPublicId # 0
       THEN [threw |-> FALSE, ret |-> <<uploaded>>,
             calls |-> <<Call("uploadImage", uploaded), Call("deleteImage", oldPublicId)>>,
             assets |-> IF fault.destroy = oldPublicId THEN live ELSE live \ {oldPublicId},
             uploads |-> 1]
       ELSE [threw |-> FALSE, ret |-> <<uploaded>>, calls |-> <<Call("uploadImage", uploaded)>>,
             assets |-> live, uploads |-> 1]

\* await replaceProjectImage(oldPublicId, buffer): the request carries the old
\* public ID (0: none, otherwise one Cloudinary issued earlier), ret the public
\* ID of the returned upload.
ReplaceImageCall ==
    /\ resp = RespIdle
    /\ counters.asset <= MaxReplaced
    /\ \E oldPublicId \in 0..(counters.asset - 1) :
       \E fault \in {NoFault, Fault(0, 1, 0, FALSE), Fault(0, 1, oldPublicId, FALSE),
                     Fault(0, 0, oldPublicId, FALSE)} :
          LET r == replaceProjectImage(oldPublicId, fault)
          IN /\ resp' = [Response("replaceProjectImage", Request(oldPublicId, NoForm, fault, NoBody),
                                  0, IF r.threw THEN "Failed to upload image to Cloudinary" ELSE None,
                                  r.calls, NoProject) EXCEPT !.ret = r.ret]
             /\ assets' = r.assets
             /\ counters' = [counters EXCEPT !.asset = @ + r.uploads]
    /\ guard' = GuardIdle
    /\ UNCHANGED <<projects, images, tags, projectTags, settings>>
    /\ UNCHANGED <<authVars, running>>

ReplaceNext ==
    \/ ReplaceImageCall
    \/ Reply

SpecReplace == ApiInit /\ [][ReplaceNext]_vars

(***************************************************************************)
(* The text fields of projects: POST and PATCH with and without a          *)
(* description and a featured field, on projects with and without images.  *)
(***************************************************************************)
TextPosts ==
    {PostForm(ValidTitle, Missing, Missing, Missing, Missing, <<>>),
     PostForm(ValidTitle, Str(<<"d">>), Missing, Str(TrueStr), Missing, <<GoodJpeg>>)}

TextPatches ==
    {PatchForm(t, d, NoTagsField, f, <<>>, Missing, AssetIds, Missing) :
        t \in {ValidTitle, Str(<<"b", " ">>)},
        d \in {Missing, Str(<<" ", "e">>)},
        f \in {Missing, Str(FalseStr)}} \cup
    {PatchForm(Str(<<"b", " ">>), Missing, NoTagsField, Missing, <<GoodJpeg>>, rm, AssetIds, Missing) :
        rm \in {Missing, Str(TrueStr)}}

TextPost ==
    /\ resp = RespIdle
    /\ \E form \in TextPosts : POST_projects(Admin, form, NoFault)

TextPatch ==
    /\ resp = RespIdle
    /\ \E id \in ProjectIds, form \in TextPatches : PATCH_project(Admin, id, form, NoFault)

TextNext ==
    \/ TextPost
    \/ TextPatch
    \/ Reply

SpecText == ApiInit /\ [][TextNext]_vars

(***************************************************************************)
(* resolveTagNamesToIds (src/lib/tags.ts) run by two callers at once.  Each *)
(* await of the function is a step: the findMany, every tag.create, the    *)
(* return.  tag.create throws when the unique index on Tag.name already    *)
(* holds the name; the function does not catch it.                         *)
(***************************************************************************)
ResolveLists ==
    {<<>>, <<<<"a">>>>, <<<<" ", "A">>>>, <<<<"b">>>>, <<<<"a">>, <<"b">>>>, <<<<"B">>, <<"a">>>>}

\* Lines 8-18: the first loop; an empty toCreate returns [] at once.
ResolveStart(c, names) ==
    /\ running[c].pc = "idle"
    /\ LET toCreate == DedupeNames(names, {}, <<>>)
       IN running' = [running EXCEPT ![c] =
              [NoCall EXCEPT !.pc = IF toCreate = <<>> THEN "returned" ELSE "findMany",
                             !.toCreate = toCreate]]
    /\ UNCHANGED <<projects, images, tags, projectTags, settings, assets, counters, resp>>
    /\ guard' = GuardIdle
    /\ UNCHANGED authVars

\* Lines 20-26: findMany ignoring case, existingLower and toInsert.
ResolveFindMany(c) ==
    /\ running[c].pc = "findMany"
    /\ LET call == running[c]
           keys == {Lower(call.toCreate[i]) : i \in DOMAIN call.toCreate}
           existing == {t \in tags : Lower(t.name) \in keys}
           toInsert == SelectSeq(call.toCreate, LAMBDA n : ExistingTagId(existing, Lower(n)) = 0)
       IN running' = [running EXCEPT ![c] =
              [call EXCEPT !.pc = "create", !.known = existing, !.todo = toInsert]]
    /\ UNCHANGED <<projects, images, tags, projectTags, settings, assets, counters, resp>>
    /\ guard' = GuardIdle
    /\ UNCHANGED authVars

\* Lines 28-34: one prisma.tag.create of the loop.
ResolveCreate(c) ==
    /\ running[c].pc = "create"
    /\ running[c].todo # <<>>
    /\ LET call == running[c]
           name == Head(call.todo)
           row == [id |-> counters.tag, name |-> name]
       IN IF \E t \in tags : t.name = name
          THEN /\ running' = [running EXCEPT ![c] = [call EXCEPT !.pc = "threw"]]
               /\ UNCHANGED <<tags, counters>>
          ELSE /\ running' = [running EXCEPT ![c] =
                      [call EXCEPT !.known = @ \cup {row}, !.todo = Tail(call.todo)]]
               /\ tags' = tags \cup {row}
               /\ counters' = [counters EXCEPT !.tag = @ + 1]
    /\ UNCHANGED <<projects, images, projectTags, settings, assets, resp>>
    /\ guard' = GuardIdle
    /\ UNCHANGED authVars

\* Line 36: the IDs of the kept names, in order.
ResolveReturn(c) ==
    /\ running[c].pc = "create"
    /\ running[c].todo = <<>>
    /\ LET call == running[c]
       IN running' = [running EXCEPT ![c] =
              [call EXCEPT !.pc = "returned",
                           !.ret = [i \in DOMAIN call.toCreate |->
                                       ExistingTagId(call.known, Lower(call.toCreate[i]))]]]
    /\ UNCHANGED <<projects, images, tags, projectTags, settings, assets, counters, resp>>
    /\ guard' = GuardIdle
    /\ UNCHANGED authVars

RaceNext ==
    \/ \E c \in Callers, names \in ResolveLists : ResolveStart(c, names)
    \/ \E c \in Callers : ResolveFindMany(c)
    \/ \E c \in Callers : ResolveCreate(c)
    \/ \E c \in Callers : ResolveReturn(c)

SpecRace == ApiInit /\ [][RaceNext]_vars

(***************************************************************************)
(* Claims about the guards (checked under SpecGuard).                      *)
(***************************************************************************)
IsGuardCall == guard.op \in {"requireAdmin", "verifyAdmin"}

\* C1: requireAdmin and verifyAdmin answer a call for which no session is
\* resolved with a 401 failure, and make no database lookup in that call.
C1_NoSession401 ==
    (IsGuardCall /\ ~guard.session.present) =>
        (~guard.ok /\ guard.status = 401 /\ guard.reads = <<>>)

\* Witness of C1: verifyAdmin called with a request whose cookie names the
\* non-expired session row of an admin, but auth() resolved no session.
C1_Witness ==
    /\ guard.op = "verifyAdmin" /\ ~guard.session.present
    /\ guard.hasRequest /\ guard.token \in Tokens
    /\ SessionByToken(guard.token).found /\ SessionByToken(guard.token).isAdmin
    /\ SessionByToken(guard.token).expires > now
    /\ guard.status = 401

\* C2: once the isAdmin flag of a user who signed in as an admin has been set
\* to false in the database, a guarded request carrying that user's session
\* is rejected with 403, whatever isAdmin value the session object embeds.
C2_RevokedRejected403 ==
    (/\ IsGuardCall /\ guard.session.present
     /\ guard.session.id # None /\ guard.session.email # None
     /\ TRUE \in minted[guard.session.id]
     /\ guard.byId.found /\ ~guard.byId.isAdmin
     /\ guard.token \in {None, TokenOf(guard.session.id)})
    => (~guard.ok /\ guard.status = 403)

\* C3: a guard answers ok only if a database read made in the same call
\* found isAdmin true.
C3_OkOnlyAfterDbRead ==
    (IsGuardCall /\ guard.ok) =>
        \E i \in DOMAIN guard.reads : guard.reads[i].found /\ guard.reads[i].isAdmin

\* C4: verifyAdmin answers 403 whenever a session exists and the session's
\* user is not an admin in the database, with or without a request object
\* and with or without a session-token cookie.
C4_VerifyNonAdmin403 ==
    (/\ guard.op = "verifyAdmin" /\ guard.session.present
     /\ guard.session.id # None /\ guard.session.email # None
     /\ guard.byEmail.found /\ ~guard.byEmail.isAdmin
     /\ guard.token \in {None, TokenOf(guard.session.id)})
    => (~guard.ok /\ guard.status = 403)

\* C5: requireAdmin answers 403 whenever a session exists, its embedded
\* isAdmin is not true, and the user row looked up by the session's user id
\* is missing or has isAdmin false (also when the session has no user id).
C5_RequireNonAdmin403 ==
    (/\ guard.op = "requireAdmin" /\ guard.session.present
     /\ ~guard.session.isAdmin
     /\ ~(guard.byId.found /\ guard.byId.isAdmin))
    => (~guard.ok /\ guard.status = 403 /\ guard.error = "Forbidden")

\* Witness of C5: a session without a user id, held by a user who is an
\* admin in the database, is rejected by requireAdmin with 403.
C5_Witness ==
    /\ guard.op = "requireAdmin" /\ guard.session.present
    /\ ~guard.session.isAdmin /\ guard.session.id = None
    /\ guard.byEmail.found /\ guard.byEmail.isAdmin
    /\ guard.status = 403

(***************************************************************************)
(* Claims about the handlers' guard (checked under SpecApi).               *)
(***************************************************************************)
Called(fn) == \E i \in DOMAIN resp.calls : resp.calls[i].fn = fn

\* C6: every mutating handler runs its guard first: when the guard fails the
\* handler answers with the guard's status and error, has made no database
\* or Cloudinary call, and leaves every table and every asset as it was.
C6_GuardFirst ==
    [][(resp.op = "none" /\ resp'.op # "none" /\ ~guard'.ok) =>
          /\ resp'.status = guard'.status
          /\ resp'.status \in {401, 403}
          /\ resp'.error = guard'.error
          /\ resp'.calls = <<>>
          /\ UNCHANGED <<projects, images, tags, projectTags, settings, assets, counters>>]_vars

\* Witness of C6: the visitor asks to delete a tag while tags are assigned to
\* projects, and is answered 403 by the guard.
C6_Witness ==
    /\ resp.op = "DELETE /api/tags/[id]"
    /\ ~guard.ok /\ resp.status = 403 /\ resp.error = "Forbidden"
    /\ TagExists(resp.req.id)
    /\ \E pt \in projectTags : pt.tagId = resp.req.id

(***************************************************************************)
(* Claims about the project handlers (checked under SpecProjects).         *)
(***************************************************************************)
\* a file the validation loop rejects: type not allowed, or above the cap
InvalidFile(f) == f.type \notin ALLOWED_IMAGE_TYPES \/ f.size > MAX_IMAGE_SIZE_BYTES

HasInvalidFile(entries) ==
    \E i \in DOMAIN ImageFilesOf(entries) : InvalidFile(ImageFilesOf(entries)[i])

\* C7: POST /api/projects with an image file of a type that is not allowed or
\* of a size above 10 MB answers 400 and has called uploadImage for no file
\* of the request.
C7_PostInvalidFileNoUpload ==
    (/\ resp.op = "POST /api/projects" /\ guard.ok
     /\ resp.req.fault = NoFault
     /\ HasInvalidFile(resp.req.form.image))
    => (resp.status = 400 /\ ~Called("uploadImage"))

\* C8: PATCH /api/projects/[id] of an existing project with an image file of
\* a type that is not allowed or of a size above 10 MB answers 400 and has
\* called none of uploadImage, deleteImage, projectImage.deleteMany and
\* project.update.
C8_PatchInvalidFileNoSideEffect ==
    (/\ resp.op = "PATCH /api/projects/[id]" /\ guard.ok
     /\ resp.status # 404
     /\ resp.req.fault = NoFault
     /\ HasInvalidFile(resp.req.form.image))
    => (/\ resp.status = 400
        /\ ~Called("uploadImage") /\ ~Called("deleteImage")
        /\ ~Called("projectImage.deleteMany") /\ ~Called("project.update"))

\* C9: a PATCH /api/projects/[id] of an existing project whose form holds
\* text fields only (a non-blank title; no image, no removeImage, no
\* keepPublicIds) answers 200 and uploads and deletes no image.
C9_TextOnlyPatch200 ==
    (/\ resp.op = "PATCH /api/projects/[id]" /\ guard.ok
     /\ resp.status # 404
     /\ resp.req.fault = NoFault
     /\ IsString(resp.req.form.title)
     /\ \E i \in DOMAIN resp.req.form.title.s : resp.req.form.title.s[i] # " "
     /\ resp.req.form.image = <<>>
     /\ resp.req.form.removeImage = Missing
     /\ resp.req.form.keepPublicIds = {})
    => (resp.status = 200 /\ ~Called("uploadImage") /\ ~Called("deleteImage"))

\* The title of the request is missing, not a string, empty or made of
\* spaces only.
BlankTitle(title) ==
    \/ title.kind = "missing"
    \/ title.kind = "file"
    \/ (title.kind = "string" /\ \A i \in DOMAIN title.s : title.s[i] = " ")

\* C10: POST /api/projects with a title that is missing, not a string, empty
\* or whitespace-only answers 400 "Title is required" and has created no
\* project and uploaded no image.
C10_PostTitleRequired ==
    (resp.op = "POST /api/projects" /\ guard.ok /\ BlankTitle(resp.req.form.title))
    => (/\ resp.status = 400 /\ resp.error = TitleRequired
        /\ ~Called("project.create") /\ ~Called("uploadImage")
        /\ resp.body = NoProject
        /\ \A p \in ProjectIds : projects[p].exists => p < counters.project)

\* Witness of C10: a POST whose title is two spaces and which carries a valid
\* image file is answered 400.
C10_Witness ==
    /\ resp.op = "POST /api/projects" /\ guard.ok
    /\ resp.req.form.title = Str(<<" ", " ">>)
    /\ ImageFilesOf(resp.req.form.image) # <<>>
    /\ ~HasInvalidFile(resp.req.form.image)
    /\ resp.status = 400

\* fn is among the calls a handler made
CalledIn(calls, fn) == \E i \in DOMAIN calls : calls[i].fn = fn

Uploaded(calls) ==
    {calls[i].arg : i \in {j \in DOMAIN calls : calls[j].fn = "uploadImage" /\ calls[j].arg # 0}}

\* A step of the request threw: an uploadImage call, or the project write the
\* fault names.
StepThrew(r) ==
    \/ CalledIn(r.calls, "uploadImage") /\ \E i \in DOMAIN r.calls : r.calls[i] = Call("uploadImage", 0)
    \/ r.req.fault.db = 1 /\ (CalledIn(r.calls, "project.create") \/ CalledIn(r.calls, "project.update"))
    \/ r.req.fault.db = 2 /\ Cardinality({i \in DOMAIN r.calls : r.calls[i].fn = "project.update"}) = 2

\* C12: when POST or PATCH has uploaded at least one image and a later upload
\* or project write of the same request throws, the response is 500 and
\* deleteImage is called exactly once for every public ID uploaded by the
\* request; every uploaded asset whose delete did not fail is gone, whether
\* or not another cleanup delete failed.
C12_CleanupEveryUpload ==
    [][(/\ resp.op = "none"
        /\ resp'.op \in {"POST /api/projects", "PATCH /api/projects/[id]"}
        /\ Uploaded(resp'.calls) # {}
        /\ StepThrew(resp'))
       => (/\ resp'.status = 500
           /\ \A u \in Uploaded(resp'.calls) :
                 /\ Cardinality({i \in DOMAIN resp'.calls :
                                    resp'.calls[i] = Call("deleteImage", u)}) = 1
                 /\ u # resp'.req.fault.destroy => u \notin assets')]_vars

\* A PATCH uploaded two images, the project update threw and the cleanup
\* delete of the first upload failed.
C12_Witness ==
    /\ resp.op = "PATCH /api/projects/[id]"
    /\ resp.status = 500
    /\ resp.req.fault.db = 1
    /\ Cardinality(Uploaded(resp.calls)) = 2
    /\ resp.req.fault.destroy \in Uploaded(resp.calls)
    /\ \E i \in DOMAIN resp.calls : i > 1 /\ resp.calls[i - 1] = Call("deleteImage", resp.req.fault.destroy)
                                   /\ resp.calls[i].fn = "deleteImage"

\* The names passed to the resolveTagNamesToIds call of response r.
NamesOf(r) == [i \in DOMAIN r.req.form.tags.items |-> r.req.form.tags.items[i].s]

\* A name trimmed and compared ignoring case.
NameKey(n) == Lower(Trim(n))

\* The keys of the non-blank names of a list, and where each occurs first.
NameKeys(names) == {NameKey(names[i]) : i \in {j \in DOMAIN names : Trim(names[j]) # <<>>}}
FirstIndex(names, key) ==
    CHOOSE i \in DOMAIN names :
        /\ NameKey(names[i]) = key
        /\ \A j \in DOMAIN names : NameKey(names[j]) = key => i <= j

\* The key of the tag row of a table that has the given ID.
KeyOfId(table, id) == Lower((CHOOSE t \in table : t.id = id).name)

\* C13: resolveTagNamesToIds returns exactly one tag ID per distinct
\* non-blank name (trimmed, ignoring case), in order of first occurrence; it
\* reuses the ID of an existing tag whose name matches ignoring case and
\* creates a tag, named by the trimmed first occurrence, only for the names
\* without a match; for an empty or all-blank list it returns the empty list
\* without touching the database.
C13_ResolveTagNames ==
    [][(resp.op = "none" /\ resp'.op = "resolveTagNamesToIds") =>
        LET names == NamesOf(resp')
            keys == NameKeys(names)
            ids == resp'.ret
            unmatched == {k \in keys : ~\E t \in tags : Lower(t.name) = k}
        IN /\ Len(ids) = Cardinality(keys)
           /\ \A i \in DOMAIN ids :
                 /\ \E t \in tags' : t.id = ids[i]
                 /\ KeyOfId(tags', ids[i]) \in keys
                 /\ KeyOfId(tags', ids[i]) \notin unmatched => \E t \in tags : t.id = ids[i]
           /\ \A i, k \in DOMAIN ids :
                 i < k => FirstIndex(names, KeyOfId(tags', ids[i])) <
                          FirstIndex(names, KeyOfId(tags', ids[k]))
           /\ tags \subseteq tags'
           /\ Cardinality(tags' \ tags) = Cardinality(unmatched)
           /\ \A t \in tags' \ tags :
                 /\ Lower(t.name) \in unmatched
                 /\ t.name = Trim(names[FirstIndex(names, Lower(t.name))])
           /\ keys = {} => (ids = <<>> /\ resp'.calls = <<>> /\ tags' = tags)]_vars

\* A call with a repeated name in another case and a blank name, one name
\* matching an existing tag ignoring case and one matching none.
C13_Witness ==
    /\ resp.op = "resolveTagNamesToIds"
    /\ NamesOf(resp) = <<<<"b", " ">>, <<" ">>, <<" ", "A">>>>
    /\ resp.ret = <<2, 1>>
    /\ tags = {[id |-> 1, name |-> <<"a">>], [id |-> 2, name |-> <<"b">>]}

\* C14: DELETE /api/tags/[id] of an existing tag, when no call fails, removes
\* every ProjectTag row of that tag and the tag itself, and leaves every
\* project, every other tag and every association of another tag unchanged;
\* for an unknown id it answers 404 and changes nothing.
C14_DeleteTag ==
    [][(/\ resp.op = "none" /\ resp'.op = "DELETE /api/tags/[id]" /\ guard'.ok
        /\ resp'.req.fault = NoFault)
       => IF TagExists(resp'.req.id)
          THEN /\ resp'.status = 200
               /\ ~\E pt \in projectTags' : pt.tagId = resp'.req.id
               /\ ~\E t \in tags' : t.id = resp'.req.id
               /\ tags' = {t \in tags : t.id # resp'.req.id}
               /\ \A pt \in projectTags : pt.tagId # resp'.req.id => pt \in projectTags'
               /\ projectTags' \subseteq projectTags
               /\ UNCHANGED <<projects, images, settings, assets>>
          ELSE /\ resp'.status = 404 /\ resp'.error = "Tag not found"
               /\ UNCHANGED <<projects, images, tags, projectTags, settings, assets>>]_vars

\* A tag attached to a project was deleted while another tag stays attached.
C14_Witness ==
    /\ resp.op = "DELETE /api/tags/[id]" /\ resp.status = 200
    /\ ~TagExists(resp.req.id)
    /\ \E pt \in projectTags : pt.tagId # resp.req.id
    /\ \E p \in ProjectIds : projects[p].exists /\ ~\E pt \in projectTags : pt.projectId = p

\* The arguments of the calls of fn among the calls a handler made, in order.
ArgsOf(calls, fn) ==
    LET sel == SelectSeq(calls, LAMBDA c : c.fn = fn) IN [i \in DOMAIN sel |-> sel[i].arg]

\* C15: PATCH /api/projects/order with a list that contains IDs of no project
\* answers 200 and makes exactly one createdAt update per ID of an existing
\* project, in the order of the list, all of them operations of one
\* $transaction call; it makes no update for an unknown ID and changes no
\* other project.
C15_OrderIgnoresUnknown ==
    [][(/\ resp.op = "none" /\ resp'.op = "PATCH /api/projects/order" /\ guard'.ok
        /\ resp'.req.body.isArray
        /\ \A i \in DOMAIN resp'.req.body.ids : resp'.req.body.ids[i] # 0
        /\ \E i \in DOMAIN resp'.req.body.ids :
              ~(resp'.req.body.ids[i] \in ProjectIds /\ projects[resp'.req.body.ids[i]].exists))
       => LET existing == SelectSeq(resp'.req.body.ids,
                                    LAMBDA i : i \in ProjectIds /\ projects[i].exists)
          IN /\ resp'.status = 200
             /\ ArgsOf(resp'.calls, "project.update") = existing
             /\ existing # <<>> => ArgsOf(resp'.calls, "$transaction") = <<Len(existing)>>
             /\ \A p \in ProjectIds :
                   IF p \in SeqToSet(existing)
                   THEN projects'[p] = [projects[p] EXCEPT !.createdAt = projects'[p].createdAt]
                   ELSE projects'[p] = projects[p]]_vars

\* Two existing projects were reordered by a list that also names an
\* unknown ID.
C15_Witness ==
    /\ resp.op = "PATCH /api/projects/order" /\ resp.status = 200
    /\ resp.req.body.ids = <<2, 3, 1>>
    /\ ArgsOf(resp.calls, "project.update") = <<2, 1>>
    /\ projects[2].createdAt > projects[1].createdAt

\* The body of a site-settings request names no usable key: it is not valid
\* JSON, or its key is missing, not a string, or only spaces.
NoUsableKey(body) ==
    \/ ~body.valid
    \/ body.key.kind # "string"
    \/ \A i \in DOMAIN body.key.s : body.key.s[i] = " "

\* C17: PATCH /api/site-settings answers 400 and makes no upsert when the
\* body is not valid JSON or its key is missing, not a string or blank;
\* otherwise it makes one upsert that leaves every other row alone and stores,
\* under that key, the given value, or the empty string when the value is
\* missing or null, and answers 200.
C17_SiteSettingsUpsert ==
    [][(resp.op = "none" /\ resp'.op = "PATCH /api/site-settings" /\ guard'.ok)
       => IF NoUsableKey(resp'.req.body)
          THEN /\ resp'.status = 400
               /\ ~CalledIn(resp'.calls, "siteSetting.upsert")
               /\ UNCHANGED settings
          ELSE /\ resp'.status = 200
               /\ ArgsOf(resp'.calls, "siteSetting.upsert") = <<0>>
               /\ \A r \in settings : r.key # resp'.req.body.key.s => r \in settings'
               /\ \A r \in settings' : r.key # resp'.req.body.key.s => r \in settings
               /\ \A r \in settings' : r.key = resp'.req.body.key.s =>
                     r.value = (IF resp'.req.body.value.kind = "string"
                                THEN resp'.req.body.value.s ELSE <<>>)
               /\ \E r \in settings' : r.key = resp'.req.body.key.s]_vars

\* A body with a key and no value stored the empty string under its key.
C17_Witness ==
    /\ resp.op = "PATCH /api/site-settings" /\ resp.status = 200 /\ guard.ok
    /\ resp.req.body.value = Missing
    /\ settings = {[key |-> resp.req.body.key.s, value |-> <<>>]}

\* The fixed messages of the 500 responses of the handlers.
GenericErrors ==
    {"Failed to create project", "Failed to update project", "Failed to delete project",
     "Failed to delete project image", "Failed to delete existing image"}

\* A database or storage call the handler of response r made has thrown.
CallThrew(r) ==
    \/ /\ r.op \in {"PATCH /api/tags/[id]", "DELETE /api/tags/[id]"}
       /\ r.req.fault.db \in 1..Len(r.calls)
    \/ /\ r.op \in {"POST /api/projects", "PATCH /api/projects/[id]"}
       /\ StepThrew(r)
    \/ /\ r.op = "DELETE /api/projects/[id]"
       /\ r.req.fault.db = 1 /\ CalledIn(r.calls, "project.delete")

\* C16: whenever a database or storage call throws inside a handler, the
\* handler itself answers 500 with one of its fixed messages.
C16_HandlerAnswers500 ==
    CallThrew(resp) => (resp.status = 500 /\ resp.error \in GenericErrors)

ProjectPublicIds(id) ==
    {r.imagePublicId : r \in ImagesOf(id)} \cup
    (IF projects[id].imagePublicId # 0 THEN {projects[id].imagePublicId} ELSE {})

\* C19: DELETE /api/projects/[id] of an existing project calls deleteImage
\* for the distinct public IDs of the project's images and of its primary
\* image, and only then deletes the row; when one of these deletions throws
\* it answers 500 and the row stays; when they all succeed it calls
\* deleteImage exactly once per public ID, and whether or not deleteFolder
\* throws the row is deleted and the answer is 200.
C19_DeleteProjectImagesFirst ==
    [][(/\ resp.op = "none" /\ resp'.op = "DELETE /api/projects/[id]" /\ guard'.ok
        /\ resp'.req.id \in ProjectIds /\ projects[resp'.req.id].exists)
       => LET id == resp'.req.id
              ids == ProjectPublicIds(id)
              deleted == ArgsOf(resp'.calls, "deleteImage")
          IN /\ \A i, j \in DOMAIN resp'.calls :
                   (resp'.calls[i].fn = "deleteImage" /\ resp'.calls[j].fn = "project.delete")
                   => i < j
             /\ SeqToSet(deleted) \subseteq ids
             /\ Len(deleted) = Cardinality(SeqToSet(deleted))
             /\ IF resp'.req.fault.destroy \in ids
                THEN /\ resp'.status = 500
                     /\ ~CalledIn(resp'.calls, "project.delete")
                     /\ projects'[id] = projects[id]
                ELSE /\ SeqToSet(deleted) = ids
                     /\ CalledIn(resp'.calls, "project.delete")
                     /\ resp'.req.fault.db # 1 => (resp'.status = 200 /\ ~projects'[id].exists)]_vars

\* A project with two images and a Cloudinary folder was deleted although
\* deleteFolder threw.
C19_Witness ==
    /\ resp.op = "DELETE /api/projects/[id]" /\ resp.status = 200
    /\ resp.req.fault.folder
    /\ CalledIn(resp.calls, "deleteFolder")
    /\ Len(ArgsOf(resp.calls, "deleteImage")) = 2
    /\ ~projects[resp.req.id].exists

C21_PatchKeepsOmittedText ==
    [][(resp.op = "none" /\ resp'.op = "PATCH /api/projects/[id]" /\ resp'.status = 200)
       => LET id == resp'.req.id
              form == resp'.req.form
              title == projects'[id].title
          IN /\ title = Trim(form.title.s)
             /\ title # <<>> /\ title[1] # " " /\ title[Len(title)] # " "
             /\ form.description.kind = "missing" => projects'[id].description = projects[id].description
             /\ form.featured.kind = "missing" => projects'[id].featured = projects[id].featured]_vars

\* A project with a description and the featured flag was renamed by a PATCH
\* that sent neither field.
C21_Witness ==
    /\ resp.op = "PATCH /api/projects/[id]" /\ resp.status = 200
    /\ resp.req.form.title = Str(<<"b", " ">>)
    /\ resp.req.form.description = Missing /\ resp.req.form.featured = Missing
    /\ projects[resp.req.id].title = <<"b">>
    /\ projects[resp.req.id].description = <<"d">>
    /\ projects[resp.req.id].featured

\* C22: after any PATCH or DELETE on /api/projects/[id], whatever its status,
\* every ProjectImage row and every non-null Project.imagePublicId stored in
\* the database refers to an asset that is still in Cloudinary.
C22_NoDanglingReference ==
    resp.op \in {"PATCH /api/projects/[id]", "DELETE /api/projects/[id]"}
    => /\ \A r \in images : r.imagePublicId \in assets
       /\ \A p \in ProjectIds :
             (projects[p].exists /\ projects[p].imagePublicId # 0)
             => projects[p].imagePublicId \in assets

\* C23: verifyAdmin returns ok exactly when a session exists and either the
\* user row with the session's e-mail has isAdmin true, or a request was
\* passed whose session-token cookie names a session row that is not expired
\* and whose user has isAdmin true; when the e-mail lookup confirms, access is
\* granted without reading the session table.
C23_VerifyAdminOkIff ==
    guard.op = "verifyAdmin" =>
        LET row == SessionByToken(guard.token)
            emailAdmin == /\ guard.session.present /\ guard.session.email # None
                          /\ guard.byEmail.found /\ guard.byEmail.isAdmin
            tokenAdmin == /\ guard.session.present /\ guard.hasRequest /\ guard.token # None
                          /\ row.found /\ row.expires > now /\ row.isAdmin
        IN /\ guard.ok <=> (emailAdmin \/ tokenAdmin)
           /\ emailAdmin => \A i \in DOMAIN guard.reads : guard.reads[i].table # "session"

\* Access was granted by the e-mail lookup although the request's token names
\* the session of a user who is not an admin.
C23_Witness ==
    /\ guard.op = "verifyAdmin" /\ guard.ok
    /\ guard.hasRequest /\ guard.token # None
    /\ SessionByToken(guard.token).found
    /\ ~SessionByToken(guard.token).isAdmin
    /\ guard.byEmail.isAdmin

\* The keys of the names a running call kept.
KeysOfCall(c) == {Lower(running[c].toCreate[i]) : i \in DOMAIN running[c].toCreate}

\* C24: when two calls of resolveTagNamesToIds that ran at the same time with
\* a name unknown before (the same name, or names that differ only in case)
\* are both over, neither has thrown, exactly one Tag row holds that name
\* ignoring case, and both calls returned its ID.
C24_ConcurrentResolve ==
    (\A c \in Callers : running[c].pc \in {"returned", "threw"})
    => \A k \in KeysOfCall(1) \cap KeysOfCall(2) :
          /\ \A c \in Callers : running[c].pc = "returned"
          /\ Cardinality({t \in tags : Lower(t.name) = k}) = 1
          /\ \A c \in Callers :
                \E i \in DOMAIN running[c].ret :
                   \E t \in tags : t.id = running[c].ret[i] /\ Lower(t.name) = k

\* No two Tag rows have names that are equal ignoring case.
TagNamesDistinct(table) == \A t, u \in table : Lower(t.name) = Lower(u.name) => t.id = u.id

\* The trimmed name of the body of the tag request being answered.
RenameTo(r) == IF IsString(r.req.body.name) THEN Trim(r.req.body.name.s) ELSE <<>>

\* C25: whatever sequence of project requests that resolve tag names, tag
\* renames and tag deletions ran one after the other, no two Tag rows have
\* names equal ignoring case; a rename of an existing tag to a name that a
\* different tag holds ignoring case answers 409 and changes nothing; a
\* rename that only changes the letter case of the tag's own name is
\* accepted and stored.
C25_TagNamesUnique ==
    [][/\ TagNamesDistinct(tags) /\ TagNamesDistinct(tags')
       /\ (/\ resp.op = "none" /\ resp'.op = "PATCH /api/tags/[id]" /\ guard'.ok
           /\ resp'.req.fault = NoFault /\ RenameTo(resp') # <<>> /\ TagExists(resp'.req.id))
          => LET id == resp'.req.id
                 name == RenameTo(resp')
             IN /\ (\E t \in tags : t.id # id /\ Lower(t.name) = Lower(name))
                      => /\ resp'.status = 409
                         /\ resp'.error = "A tag with that name already exists"
                         /\ UNCHANGED <<projects, images, tags, projectTags, settings, assets>>
                /\ (/\ KeyOfId(tags, id) = Lower(name)
                    /\ ~\E t \in tags : t.id # id /\ Lower(t.name) = Lower(name))
                      => /\ resp'.status = 200
                         /\ tags' = {t \in tags : t.id # id} \cup {[id |-> id, name |-> name]}]_vars

\* C25 witness: with two tags stored, a rename to the other tag's name in
\* another letter case was refused with 409.
C25_Witness ==
    /\ resp.op = "PATCH /api/tags/[id]" /\ resp.status = 409
    /\ Cardinality(tags) = 2
    /\ \E t \in tags : t.id # resp.req.id /\ Lower(t.name) = Lower(RenameTo(resp)) /\ t.name # RenameTo(resp)

\* A rename that changed only the letter case of the tag's own name was stored.
C25_WitnessOwnCase ==
    /\ resp.op = "PATCH /api/tags/[id]" /\ resp.status = 200
    /\ \E t \in tags : t.id = resp.req.id /\ t.name = <<"A">>
    /\ Cardinality(tags) = 2

\* The tags field of a PATCH as the handler reads it: the keys of the
\* non-blank string items of a JSON array, no key for anything else.
RequestedTagKeys(tagsRaw) ==
    IF tagsRaw.kind # "array" THEN {}
    ELSE {Lower(Trim(tagsRaw.items[i].s)) :
             i \in {j \in DOMAIN tagsRaw.items :
                       IsString(tagsRaw.items[j]) /\ Trim(tagsRaw.items[j].s) # <<>>}}

TagIdsOf(links, id) == {pt.tagId : pt \in {l \in links : l.projectId = id}}

C27_KeptBeforeNewDistinct ==
    [][(resp.op = "none" /\ resp'.op = "PATCH /api/projects/[id]" /\ resp'.status = 200)
       => LET id == resp'.req.id
              after == {r \in images' : r.projectId = id}
              kept == after \cap ImagesOf(id)
              new == after \ ImagesOf(id)
          IN (kept # {} /\ new # {})
             => /\ \A r, q \in after : r.sortOrder = q.sortOrder => r = q
                /\ \A k \in kept, n \in new : k.sortOrder < n.sortOrder]_vars

\* A PATCH of an existing project by the admin with a valid title is being
\* answered: the handler got as far as its image branches.
PatchReachedImages ==
    /\ resp.op = "none" /\ resp'.op = "PATCH /api/projects/[id]" /\ guard'.ok
    /\ resp'.req.id \in ProjectIds /\ projects[resp'.req.id].exists
    /\ ~TitleInvalid(resp'.req.form.title)
    /\ resp'.req.fault = NoFault

NoNewFile(form) == ImageFilesOf(form.image) = <<>>
KeptRows(id, form) == {r \in ImagesOf(id) : r.imagePublicId \in form.keepPublicIds}

\* The 400 of an image branch, with nothing deleted.
RejectedUntouched ==
    /\ resp'.status = 400
    /\ resp'.error \in {"At least one image is required",
                        "At least one image is required. Add new images before removing all."}
    /\ ~CalledIn(resp'.calls, "deleteImage") /\ ~CalledIn(resp'.calls, "projectImage.deleteMany")
    /\ UNCHANGED <<projects, images, assets>>

\* After a PATCH answered 200 that changed the project's ProjectImage rows,
\* the project has at least one.
ChangedImagesLeaveOne ==
    (resp.op = "none" /\ resp'.op = "PATCH /api/projects/[id]" /\ resp'.status = 200)
    => LET after == {r \in images' : r.projectId = resp'.req.id}
       IN after # ImagesOf(resp'.req.id) => after # {}

====
